---- MODULE Spec2Model ----
(***************************************************************************)
(* Factory planner (App.tsx, v3.1): recipe catalogue, production-chain     *)
(* resolver, layout allocator, junction planner, bus assignment and belt   *)
(* tier classification, modelled as a state machine over the React state   *)
(* of FactoryPlanner.                                                       *)
(*                                                                         *)
(* Numbers.  Rates and machine counts are JavaScript numbers; they are     *)
(* modelled as exact rationals [num, den] in lowest terms.  Plane          *)
(* coordinates are integers in units of 0.1 m (M(n) is n metres), so that  *)
(* the paddings 0.4 m and 0.5 m and the half-metre offsets are exact.      *)
(***************************************************************************)
EXTENDS Integers, Sequences, FiniteSets, TLC

VARIABLES
    recipes,      \* useState<Recipe[]>       (App.tsx:899)
    gridStep,     \* useState(1)              (App.tsx:890)
    tool,         \* useState<ToolType>       (App.tsx:891)
    palette,      \* useState<BuildingId>     (App.tsx:892)
    targetItem,   \* useState<string>("")     (App.tsx:901)
    targetRate,   \* useState<number>(15)     (App.tsx:902)
    preferAlt,    \* useState<boolean>(false) (App.tsx:903)
    entities,     \* useState<PlacedEntity[]> (App.tsx:894)
    belts,        \* useState<Belt[]>         (App.tsx:895)
    buses,        \* useState<{item,y}[]>     (App.tsx:896)
    lastOp,       \* history: the handler that ran last and how it ended
    steps,        \* history: the number of handlers run so far
    probe         \* history: the arguments and result of the last call of a
                  \* pure function or the frames of a running buildChain

vars == <<recipes, gridStep, tool, palette, targetItem, targetRate, preferAlt,
          entities, belts, buses, lastOp, steps, probe>>

(***************************************************************************)
(* Exact rational arithmetic for JavaScript numbers.                        *)
(***************************************************************************)
Abs(n) == IF n < 0 THEN -n ELSE n

RECURSIVE Gcd(_, _)
Gcd(a, b) == IF b = 0 THEN a ELSE Gcd(b, a % b)

Rat(n, d) ==
    LET s == IF d < 0 THEN -1 ELSE 1
        g == Gcd(Abs(n), Abs(d))
    IN  [num |-> (s * n) \div g, den |-> (s * d) \div g]

Num(n) == [num |-> n, den |-> 1]

RatMul(a, b) == Rat(a.num * b.num, a.den * b.den)

RatDiv(a, b) == Rat(a.num * b.den, a.den * b.num)

RatAdd(a, b) == Rat(a.num * b.den + b.num * a.den, a.den * b.den)

\* a <= b and a < b; fractions with one denominator are compared by their
\* numerators, which keeps the products within TLC's 32-bit integers
RatLe(a, b) == IF a.den = b.den THEN a.num <= b.num
               ELSE a.num * b.den <= b.num * a.den

RatLt(a, b) == IF a.den = b.den THEN a.num < b.num
               ELSE a.num * b.den < b.num * a.den

\* Math.ceil
RatCeil(a) == -((-a.num) \div a.den)

(***************************************************************************)
(* Recipes (types.ts).  alt?: boolean is optional in the source; an absent *)
(* flag is falsy in every test the code makes, so it is modelled as FALSE. *)
(***************************************************************************)
Ing(name, rate) == [name |-> name, rate |-> Num(rate)]

Recipe(id, name, rate, inputs, building, alt) ==
    [id |-> id, product |-> [name |-> name, rate |-> Num(rate)],
     inputs |-> inputs, building |-> building, alt |-> alt]

\* The result of Array.prototype.find, given the elements that pass its test
\* in array order: a sequence of length 0 (undefined) or 1 (the first one)
FirstOf(hits) == IF hits = <<>> THEN <<>> ELSE <<Head(hits)>>

\* a || b on two optional values
OrElse(a, b) == IF a # <<>> THEN a ELSE b

\* findRecipeByProduct with a swapped preference (mutant)
findRecipeByProduct_swapped(rs, productName, preferAltLocal) ==
    LET candidates == SelectSeq(rs, LAMBDA r : r.product.name = productName)
        std == FirstOf(SelectSeq(candidates, LAMBDA r : ~r.alt))
        alt == FirstOf(SelectSeq(candidates, LAMBDA r : r.alt))
    IN  IF candidates = <<>> THEN <<>>
        ELSE OrElse(std, OrElse(alt, <<candidates[1]>>))

\* findRecipeByProduct without the fallback to the other kind (mutant)
findRecipeByProduct_noFallback(rs, productName, preferAltLocal) ==
    LET candidates == SelectSeq(rs, LAMBDA r : r.product.name = productName)
        std == FirstOf(SelectSeq(candidates, LAMBDA r : ~r.alt))
        alt == FirstOf(SelectSeq(candidates, LAMBDA r : r.alt))
    IN  IF candidates = <<>> THEN <<>>
        ELSE IF preferAltLocal THEN alt ELSE std

\* findRecipeByProduct (App.tsx:955-961); rs is the recipes state it reads.
\* The result is <<>> for undefined and <<r>> for a recipe r.
findRecipeByProduct(rs, productName, preferAltLocal) ==
    LET candidates == SelectSeq(rs, LAMBDA r : r.product.name = productName)
        std == FirstOf(SelectSeq(candidates, LAMBDA r : ~r.alt))
        alt == FirstOf(SelectSeq(candidates, LAMBDA r : r.alt))
    IN  IF candidates = <<>> THEN <<>>
        ELSE IF preferAltLocal
             THEN OrElse(alt, OrElse(std, <<candidates[1]>>))
             ELSE OrElse(std, OrElse(alt, <<candidates[1]>>))

(***************************************************************************)
(* Demand tree.  A Node is a record; inp.from is <<>> (no child) or        *)
(* <<child>>.  Nodes are JavaScript objects compared by reference          *)
(* (Array.includes at App.tsx:1032), so every node carries its identity in *)
(* id: the path of 0-based input indices that leads to it from the root.   *)
(***************************************************************************)
\* inputRate without the division by the recipe's output rate (mutant)
inputRate_unscaled(rate, inp, r) == RatMul(rate, inp.rate)

\* rate * inp.rate / r.product.rate                        (App.tsx:974)
inputRate(rate, inp, r) == RatDiv(RatMul(rate, inp.rate), r.product.rate)

\* machinesFor rounded up to whole machines (mutant)
machinesFor_rounded(rate, r) == Num(RatCeil(RatDiv(rate, r.product.rate)))

\* machinesFor rounded down to whole machines (mutant)
machinesFor_floored(rate, r) ==
    LET m == RatDiv(rate, r.product.rate) IN Num(m.num \div m.den)

\* rate / r.product.rate                                   (App.tsx:966)
machinesFor(rate, r) == RatDiv(rate, r.product.rate)

\* buildChain (App.tsx:963-987) for the node at path; <<>> is null
RECURSIVE buildChainAt(_, _, _, _, _)
buildChainAt(rs, productName, rate, preferAltLocal, path) ==
    LET found == findRecipeByProduct(rs, productName, preferAltLocal)
    IN  IF found = <<>> THEN <<>>
        ELSE
          LET r == found[1]
              plain == [i \in 1..Len(r.inputs) |->
                          [name |-> r.inputs[i].name,
                           rate |-> inputRate(rate, r.inputs[i], r)]]
              linked == [i \in 1..Len(plain) |->
                          LET inp == plain[i]
                              sub == findRecipeByProduct(rs, inp.name, preferAltLocal)
                          IN  [name |-> inp.name, rate |-> inp.rate,
                               from |-> IF sub # <<>>
                                        THEN buildChainAt(rs, inp.name, inp.rate,
                                                 preferAltLocal, Append(path, i - 1))
                                        ELSE <<>>]]
          IN  <<[id         |-> path,
                 name       |-> r.product.name,
                 recipeId   |-> r.id,
                 building   |-> r.building,
                 outputRate |-> rate,
                 machines   |-> machinesFor(rate, r),
                 inputs     |-> linked]>>

\* buildChain as runPlanner calls it (App.tsx:1568)
buildChain(rs, productName, rate, preferAltLocal) ==
    buildChainAt(rs, productName, rate, preferAltLocal, <<>>)

(***************************************************************************)
(* Belt tiers.                                                              *)
(***************************************************************************)
\* BELT_SPEEDS (constants.ts:4, App.tsx:856)
BELT_SPEEDS == <<60, 120, 270, 480, 780>>

\* Array.prototype.findIndex, given the outcome of its test on each element:
\* the 0-based index of the first TRUE from position i on, -1 when none
RECURSIVE findIndexFrom(_, _)
findIndexFrom(passes, i) ==
    IF i > Len(passes) THEN -1
    ELSE IF passes[i] THEN i - 1
    ELSE findIndexFrom(passes, i + 1)

\* minBeltMkFor with a strict comparison (mutant)
minBeltMkFor_strict(rate) ==
    LET idx == findIndexFrom([t \in 1..Len(BELT_SPEEDS) |-> RatLt(rate, Num(BELT_SPEEDS[t]))], 1)
    IN  IF idx = -1 THEN 5 ELSE idx + 1

\* minBeltMkFor (App.tsx:989-992)
minBeltMkFor(rate) ==
    LET idx == findIndexFrom([t \in 1..Len(BELT_SPEEDS) |-> RatLe(rate, Num(BELT_SPEEDS[t]))], 1)
    IN  IF idx = -1 THEN 5 ELSE idx + 1

(***************************************************************************)
(* Edges of the demand tree.                                                *)
(***************************************************************************)
\* collectEdges that descends into the child before it pushes the edge
\* (mutant)
RECURSIVE dfsChildFirst(_, _)
dfsChildFirst(n, i) ==
    IF i > Len(n.inputs) THEN <<>>
    ELSE (IF n.inputs[i].from # <<>>
          THEN dfsChildFirst(n.inputs[i].from[1], 1)
                 \o <<[from |-> n.inputs[i].from[1], to |-> n, inputIndex |-> i - 1,
                       rate |-> n.inputs[i].rate, item |-> n.inputs[i].name]>>
          ELSE <<>>)
         \o dfsChildFirst(n, i + 1)

collectEdges_childFirst(root) == dfsChildFirst(root, 1)

\* collectEdges (App.tsx:1287-1298): dfs(n), inputs i..Len in order
RECURSIVE dfsFrom(_, _)
dfsFrom(n, i) ==
    IF i > Len(n.inputs) THEN <<>>
    ELSE LET inp == n.inputs[i]
         IN  (IF inp.from # <<>>
              THEN <<[from |-> inp.from[1], to |-> n, inputIndex |-> i - 1,
                      rate |-> inp.rate, item |-> inp.name]>>
                   \o dfsFrom(inp.from[1], 1)
              ELSE <<>>)
             \o dfsFrom(n, i + 1)

collectEdges(root) == dfsFrom(root, 1)

\* every node of the tree under n, n first
RECURSIVE nodesOf(_)
RECURSIVE nodesFrom(_, _)
nodesOf(n) == <<n>> \o nodesFrom(n, 1)
nodesFrom(n, i) ==
    IF i > Len(n.inputs) THEN <<>>
    ELSE (IF n.inputs[i].from # <<>> THEN nodesOf(n.inputs[i].from[1]) ELSE <<>>)
         \o nodesFrom(n, i + 1)

(***************************************************************************)
(* Idle values: the state of FactoryPlanner right after construction       *)
(* (App.tsx:889-903), before the effect at App.tsx:910-915 loads recipes.  *)
(***************************************************************************)
NoProbe == [fn |-> "none"]

NoOp == [op |-> "init", ok |-> TRUE]

UiIdle ==
    /\ gridStep = 1
    /\ tool = "select"
    /\ palette = "constructor"
    /\ targetItem = ""
    /\ targetRate = Num(15)
    /\ preferAlt = FALSE
    /\ entities = <<>>
    /\ belts = <<>>
    /\ buses = <<>>
    /\ lastOp = NoOp
    /\ steps = 0

UiUnchanged ==
    UNCHANGED <<gridStep, tool, palette, targetItem, targetRate, preferAlt,
                entities, belts, buses, lastOp, steps>>

(***************************************************************************)
(* SpecCatalog: findRecipeByProduct applied to every recipe list of up to  *)
(* MaxRecipes entries drawn from CatalogPool.                               *)
(***************************************************************************)
MaxRecipes == 3

CatalogPool ==
    { Recipe("plate",      "Plate", 30, <<Ing("Ingot", 30)>>, "constructor", FALSE),
      Recipe("plate_b",    "Plate", 20, <<Ing("Ingot", 30)>>, "constructor", FALSE),
      Recipe("plate_alt",  "Plate", 15, <<Ing("Rod", 15)>>,   "constructor", TRUE),
      Recipe("plate_alt2", "Plate", 45, <<Ing("Ore", 15)>>,   "smelter",     TRUE),
      Recipe("rod",        "Rod",   15, <<Ing("Ingot", 15)>>, "constructor", FALSE),
      Recipe("rod_alt",    "Rod",   30, <<Ing("Ore", 15)>>,   "constructor", TRUE) }

CatalogItems == {"Plate", "Rod", "Ore"}

CatalogDatasets == UNION { [1..n -> CatalogPool] : n \in 0..MaxRecipes }

InitCatalog ==
    /\ recipes \in CatalogDatasets
    /\ probe = NoProbe
    /\ UiIdle

Resolve ==
    /\ probe = NoProbe
    /\ \E productName \in CatalogItems, preferAltLocal \in BOOLEAN :
          probe' = [fn |-> "findRecipeByProduct",
                    productName |-> productName,
                    preferAltLocal |-> preferAltLocal,
                    found |-> findRecipeByProduct(recipes, productName, preferAltLocal)]
    /\ UNCHANGED recipes
    /\ UiUnchanged

NextCatalog == Resolve

SpecCatalog == InitCatalog /\ [][NextCatalog]_vars

\* the recipes of the list that output the item
ProducersOf(rs, item) == { rs[i] : i \in { j \in 1..Len(rs) : rs[j].product.name = item } }

(* C1: findRecipeByProduct returns none exactly when no recipe outputs the
   item; otherwise it returns a recipe that outputs the item, which is a
   standard one when preferAlternate is false and an alternate one when it is
   true if the item has both kinds, and of the only kind present otherwise. *)
C1_RecipeSelection ==
    probe.fn = "findRecipeByProduct" =>
      LET cands  == ProducersOf(recipes, probe.productName)
          hasStd == \E r \in cands : ~r.alt
          hasAlt == \E r \in cands : r.alt
          found  == probe.found
      IN  /\ (found = <<>>) <=> (cands = {})
          /\ found # <<>> =>
               /\ found[1] \in cands
               /\ (hasStd /\ hasAlt) => (found[1].alt <=> probe.preferAltLocal)
               /\ (hasStd /\ ~hasAlt) => ~found[1].alt
               /\ (hasAlt /\ ~hasStd) => found[1].alt

\* both kinds exist, the standard recipe comes first in the list, the
\* alternate one is asked for and returned
C1_Witness ==
    /\ probe.fn = "findRecipeByProduct"
    /\ Len(recipes) >= 2
    /\ recipes[1].product.name = probe.productName /\ ~recipes[1].alt
    /\ recipes[2].product.name = probe.productName /\ recipes[2].alt
    /\ probe.preferAltLocal
    /\ probe.found = <<recipes[2]>>

(***************************************************************************)
(* The recipe dataset.  src/data/recipes.json is loaded once by the effect *)
(* at App.tsx:910-915; RECIPES_DATA is a dataset of the shape types.ts     *)
(* gives, with an item that has a standard and an alternate recipe (the    *)
(* alternate listed first), raw materials, a two-input recipe and a recipe *)
(* reached through two different inputs.                                    *)
(***************************************************************************)
RECIPES_DATA ==
    << Recipe("plate_alt", "Plate", 15, <<Ing("Rod", 15)>>,   "constructor", TRUE),
       Recipe("plate",     "Plate", 30, <<Ing("Ingot", 30)>>, "constructor", FALSE),
       Recipe("ingot",     "Ingot", 15, <<Ing("Ore", 15)>>,   "smelter",     FALSE),
       Recipe("ingot_alt", "Ingot", 20, <<Ing("Ore", 45)>>,   "smelter",     TRUE),
       Recipe("rod",       "Rod",   15, <<Ing("Wire", 15)>>,  "constructor", FALSE),
       Recipe("wire",      "Wire",  60, <<Ing("Copper", 30)>>, "constructor", FALSE),
       Recipe("frame",     "Frame", 30, <<Ing("Ingot", 30), Ing("Rod", 30)>>,
              "assembler", FALSE),
       Recipe("panel",     "Panel", 15, <<Ing("Plate", 15), Ing("Ingot", 15)>>,
              "assembler", FALSE) >>

\* every item name of the dataset, products and raw materials
ItemNames ==
    { RECIPES_DATA[i].product.name : i \in 1..Len(RECIPES_DATA) }
    \cup UNION { { RECIPES_DATA[i].inputs[j].name : j \in 1..Len(RECIPES_DATA[i].inputs) }
                 : i \in 1..Len(RECIPES_DATA) }

(***************************************************************************)
(* SpecChain: buildChain applied to every request over the datasets that   *)
(* RECIPES_DATA gives when up to MaxDropped of its recipes are left out.   *)
(***************************************************************************)
MaxDropped == 2

ChainDatasets ==
    { SelectSeq(RECIPES_DATA, LAMBDA r : r.id \notin dropped) :
        dropped \in { d \in SUBSET { RECIPES_DATA[i].id : i \in 1..Len(RECIPES_DATA) } :
                        Cardinality(d) <= MaxDropped } }

\* requested rates: parseFloat of the rate field (App.tsx:1805)
ChainRates == { Num(0), Num(15), Num(30), Num(45), Num(60) }

InitChain ==
    /\ recipes \in ChainDatasets
    /\ probe = NoProbe
    /\ UiIdle

BuildChain ==
    /\ probe = NoProbe
    /\ \E productName \in ItemNames, rate \in ChainRates, preferAltLocal \in BOOLEAN :
          probe' = [fn |-> "buildChain",
                    productName |-> productName,
                    rate |-> rate,
                    preferAltLocal |-> preferAltLocal,
                    chain |-> buildChain(recipes, productName, rate, preferAltLocal)]
    /\ UNCHANGED recipes
    /\ UiUnchanged

NextChain == BuildChain

SpecChain == InitChain /\ [][NextChain]_vars

\* the recipe of the list with the given id
RecipeById(rs, id) == CHOOSE r \in { rs[i] : i \in 1..Len(rs) } : r.id = id

\* a = b, a = b * c and a * c = b as statements about fractions
FracEq(a, b) == a.num * b.den = b.num * a.den
FracIsProduct(a, b, c) == a.num * b.den * c.den = b.num * c.num * a.den

\* the nodes of the last tree built
ChainNodes == IF probe.chain = <<>> THEN <<>> ELSE nodesOf(probe.chain[1])

(* C2: every node of the tree built by buildChain, the root and every
   descendant, has machines = outputRate / R for the output rate R of its
   recipe, with no rounding, and outputRate equal to the rate it was asked
   for: the requested rate at the root, the input slot's rate below it. *)
C2_MachinesExact ==
    probe.fn = "buildChain" /\ probe.chain # <<>> =>
      LET ns == ChainNodes
      IN  /\ FracEq(ns[1].outputRate, probe.rate)
          /\ \A k \in 1..Len(ns) :
               LET n == ns[k]
                   R == RecipeById(recipes, n.recipeId).product.rate
               IN  /\ FracIsProduct(n.outputRate, n.machines, R)
                   /\ \A i \in 1..Len(n.inputs) :
                        n.inputs[i].from # <<>> =>
                          FracEq(n.inputs[i].from[1].outputRate, n.inputs[i].rate)

\* a tree of depth two with a fractional machine count at the root and at
\* the child
C2_Witness ==
    /\ probe.fn = "buildChain" /\ probe.chain # <<>>
    /\ probe.chain[1].machines.den > 1
    /\ \E i \in 1..Len(probe.chain[1].inputs) :
         /\ probe.chain[1].inputs[i].from # <<>>
         /\ probe.chain[1].inputs[i].from[1].machines.den > 1

\* the recipe buildChain chooses for an item under the probe's flag, as a
\* set: the first standard and the first alternate recipe of the list are
\* the only candidates findRecipeByProduct can return
FirstOfKind(rs, item, alt) ==
    LET idx == { i \in 1..Len(rs) : rs[i].product.name = item /\ rs[i].alt = alt }
    IN  IF idx = {} THEN {}
        ELSE { rs[CHOOSE i \in idx : \A j \in idx : i <= j] }

Chosen(rs, item, prefer) ==
    IF FirstOfKind(rs, item, prefer) # {} THEN FirstOfKind(rs, item, prefer)
    ELSE FirstOfKind(rs, item, ~prefer)

\* the scenario of C3: the target's recipe outputs 30/min from one input at
\* 30/min, that input's recipe outputs 15/min from raw materials only, and
\* the request is for 30/min
C3_Scenario ==
    /\ probe.fn = "buildChain"
    /\ FracEq(probe.rate, Num(30))
    /\ \E r \in Chosen(recipes, probe.productName, probe.preferAltLocal) :
         /\ FracEq(r.product.rate, Num(30))
         /\ Len(r.inputs) = 1
         /\ FracEq(r.inputs[1].rate, Num(30))
         /\ \E c \in Chosen(recipes, r.inputs[1].name, probe.preferAltLocal) :
              /\ FracEq(c.product.rate, Num(15))
              /\ \A j \in 1..Len(c.inputs) : ProducersOf(recipes, c.inputs[j].name) = {}

\* what C3 says of the tree and the edges, for a root machine count m
C3_Outcome(m) ==
    /\ probe.chain # <<>>
    /\ LET root  == probe.chain[1]
           edges == collectEdges(root)
       IN  /\ FracEq(root.machines, Num(m))
           /\ Len(ChainNodes) = 2
           /\ Len(root.inputs) = 1
           /\ root.inputs[1].from # <<>>
           /\ FracEq(root.inputs[1].from[1].machines, Num(2))
           /\ Len(edges) = 1
           /\ FracEq(edges[1].rate, Num(30))
           /\ edges[1].from = root.inputs[1].from[1]
           /\ edges[1].to = root

(* C3 as claimed: in the scenario the root has machines = 2, exactly one
   child with machines = 2, and collectEdges returns exactly one edge, of
   rate 30. *)
C3_AsClaimed == C3_Scenario => C3_Outcome(2)

(* C3 as amended: in the scenario the root has machines = 30 / 30 = 1,
   exactly one child with machines = 30 / 15 = 2, and collectEdges returns
   exactly one edge, of rate 30, from the child to the root. *)
C3_EndToEnd == C3_Scenario => C3_Outcome(1)

C3_Witness == C3_Scenario /\ C3_Outcome(1)

(* C4: when the requested rate is positive, every node of the demand tree,
   at every depth, has a strictly positive machine count, so that the
   number of machines instantiated for it, its count rounded up, is at
   least one. *)
C4_MachinesPositive ==
    probe.fn = "buildChain" /\ probe.rate.num > 0 /\ probe.chain # <<>> =>
      \A k \in 1..Len(ChainNodes) :
          /\ ChainNodes[k].machines.num > 0
          /\ ChainNodes[k].machines.den > 0
          /\ RatCeil(ChainNodes[k].machines) >= 1

\* a positive request whose tree has a node three levels down needing less
\* than one machine
C4_Witness ==
    /\ probe.fn = "buildChain" /\ probe.rate.num > 0 /\ probe.chain # <<>>
    /\ \E k \in 1..Len(ChainNodes) :
         /\ Len(ChainNodes[k].id) >= 2
         /\ ChainNodes[k].machines.num > 0
         /\ ChainNodes[k].machines.num < ChainNodes[k].machines.den

(* C5: in every node of the tree, built at rate r from a recipe of output
   rate R, there is one input slot per recipe input, in the recipe's order;
   slot i names the recipe's input i and has rate r * input.rate / R; the
   slot has a child exactly when some recipe outputs its item, the child is
   a node for that item built at exactly the slot's rate, and a slot whose
   item has no recipe stays childless while its parent is still built. *)
C5_InputSlots ==
    probe.fn = "buildChain" =>
      /\ (probe.chain # <<>>) <=> (ProducersOf(recipes, probe.productName) # {})
      /\ \A k \in 1..Len(ChainNodes) :
           LET n == ChainNodes[k]
               r == RecipeById(recipes, n.recipeId)
           IN  /\ Len(n.inputs) = Len(r.inputs)
               /\ \A i \in 1..Len(n.inputs) :
                    LET inp == n.inputs[i]
                    IN  /\ inp.name = r.inputs[i].name
                        /\ inp.rate.num * r.product.rate.num
                             * n.outputRate.den * r.inputs[i].rate.den
                           = n.outputRate.num * r.inputs[i].rate.num
                             * inp.rate.den * r.product.rate.den
                        /\ (inp.from # <<>>) <=> (ProducersOf(recipes, inp.name) # {})
                        /\ inp.from # <<>> =>
                             /\ inp.from[1].name = inp.name
                             /\ FracEq(inp.from[1].outputRate, inp.rate)

\* a node with one input that has a child and one that is a raw material,
\* below the root, with a rate that is not the recipe's own
C5_Witness ==
    /\ probe.fn = "buildChain" /\ probe.chain # <<>>
    /\ \E k \in 1..Len(ChainNodes) :
         LET n == ChainNodes[k]
         IN  /\ \E i \in 1..Len(n.inputs) :
                    /\ n.inputs[i].from # <<>>
                    /\ ~FracEq(n.inputs[i].rate,
                               RecipeById(recipes, n.recipeId).inputs[i].rate)
                    /\ \E j \in 1..Len(n.inputs[i].from[1].inputs) :
                           n.inputs[i].from[1].inputs[j].from = <<>>
             /\ \E i \in 1..Len(n.inputs) :
                    /\ n.inputs[i].from = <<>>
                    /\ ProducersOf(recipes, n.inputs[i].name) = {}

(***************************************************************************)
(* SpecTier: minBeltMkFor applied to one rate and then to a second one.    *)
(* The rates are the multiples of 30 up to 30 * MaxTierSteps and every     *)
(* capacity of BELT_SPEEDS with its two neighbours at a distance of 0.0001.*)
(***************************************************************************)
MaxTierSteps == 30

TierRates ==
    { Num(30 * k) : k \in 0..MaxTierSteps }
    \cup { Rat(BELT_SPEEDS[t] * 10000 + e, 10000) : t \in 1..Len(BELT_SPEEDS), e \in {-1, 0, 1} }

InitTier ==
    /\ recipes = <<>>
    /\ probe = NoProbe
    /\ UiIdle

Classify ==
    /\ probe.fn = "none" \/ (probe.fn = "minBeltMkFor" /\ probe.prev = <<>>)
    /\ \E rate \in TierRates :
          probe' = [fn |-> "minBeltMkFor", rate |-> rate, mk |-> minBeltMkFor(rate),
                    prev |-> IF probe.fn = "none" THEN <<>>
                             ELSE <<[rate |-> probe.rate, mk |-> probe.mk]>>]
    /\ UNCHANGED recipes
    /\ UiUnchanged

NextTier == Classify

SpecTier == InitTier /\ [][NextTier]_vars

\* the capacities C8 names, tier 1 to tier 5
C8_Caps == <<60, 120, 270, 480, 780>>

\* rate <= n and rate = n / d for a rate of the model
AtMost(rate, n) == rate.num <= n * rate.den
Is(rate, n, d) == rate = Rat(n, d)

(* C8: minBeltMkFor returns a tier in 1..5: the smallest tier whose
   capacity among 60, 120, 270, 480, 780 is at least the rate, and tier 5
   when the rate exceeds 780; 60 gives tier 1, 60.0001 tier 2, 780 tier 5
   and 900 tier 5; and of two rates the larger never gets the smaller
   tier. *)
C8_TierFor ==
    probe.fn = "minBeltMkFor" =>
      /\ probe.mk \in 1..5
      /\ AtMost(probe.rate, 780) =>
           /\ AtMost(probe.rate, C8_Caps[probe.mk])
           /\ \A t \in 1..(probe.mk - 1) : ~AtMost(probe.rate, C8_Caps[t])
      /\ ~AtMost(probe.rate, 780) => probe.mk = 5
      /\ Is(probe.rate, 60, 1) => probe.mk = 1
      /\ Is(probe.rate, 600001, 10000) => probe.mk = 2
      /\ Is(probe.rate, 780, 1) => probe.mk = 5
      /\ Is(probe.rate, 900, 1) => probe.mk = 5
      /\ \A i \in 1..Len(probe.prev) :
           /\ RatLe(probe.prev[i].rate, probe.rate) => probe.prev[i].mk <= probe.mk
           /\ RatLe(probe.rate, probe.prev[i].rate) => probe.mk <= probe.prev[i].mk

\* 60 classified as tier 1 and then 60.0001 as tier 2
C8_Witness ==
    /\ probe.fn = "minBeltMkFor"
    /\ Is(probe.rate, 600001, 10000) /\ probe.mk = 2
    /\ probe.prev # <<>>
    /\ Is(probe.prev[1].rate, 60, 1) /\ probe.prev[1].mk = 1

\* 900, above every capacity, classified as tier 5 after 780
C8_WitnessOverflow ==
    /\ probe.fn = "minBeltMkFor"
    /\ Is(probe.rate, 900, 1) /\ probe.mk = 5
    /\ probe.prev # <<>>
    /\ Is(probe.prev[1].rate, 780, 1) /\ probe.prev[1].mk = 5

(***************************************************************************)
(* SpecBuild: buildChain (App.tsx:963-987) step by step, with its call     *)
(* stack.  A frame is one activation: the node it is filling in and the    *)
(* 1-based position i of the input the second map (App.tsx:977-984) is at. *)
(* The datasets hold up to MaxBuildRecipes recipes of BuildPool, in the    *)
(* pool's order; some are cyclic.  The stack is cut off at MaxDepth        *)
(* frames, where the engine's own limit is some thousands of frames.       *)
(***************************************************************************)
MaxBuildRecipes == 4

MaxDepth == 5

BuildPool ==
    << Recipe("a_b",       "A", 30, <<Ing("B", 30)>>,                "constructor", FALSE),
       Recipe("a_raw_alt", "A", 30, <<Ing("Ore", 30)>>,              "smelter",     TRUE),
       Recipe("b_c",       "B", 15, <<Ing("C", 15), Ing("Ore", 15)>>, "assembler",  FALSE),
       Recipe("b_a_alt",   "B", 15, <<Ing("A", 15)>>,                "constructor", TRUE),
       Recipe("c_a",       "C", 15, <<Ing("Ore", 5), Ing("A", 15)>>, "assembler",   FALSE),
       Recipe("c_raw",     "C", 60, <<Ing("Ore", 30)>>,              "smelter",     FALSE),
       Recipe("c_c_alt",   "C", 15, <<Ing("C", 15)>>,                "constructor", TRUE) >>

BuildItems == {"A", "B", "C", "Ore"}

BuildDatasets ==
    { SelectSeq(BuildPool, LAMBDA r : r.id \in kept) :
        kept \in { k \in SUBSET { BuildPool[i].id : i \in 1..Len(BuildPool) } :
                     Cardinality(k) <= MaxBuildRecipes } }

\* the activation of buildChain for an item that has a recipe: the node
\* with its inputs not linked yet (App.tsx:964-975)
frameFor(rs, productName, rate, preferAltLocal, path) ==
    LET r == findRecipeByProduct(rs, productName, preferAltLocal)[1]
    IN  [node |-> [id         |-> path,
                   name       |-> r.product.name,
                   recipeId   |-> r.id,
                   building   |-> r.building,
                   outputRate |-> rate,
                   machines   |-> machinesFor(rate, r),
                   inputs     |-> [i \in 1..Len(r.inputs) |->
                                     [name |-> r.inputs[i].name,
                                      rate |-> inputRate(rate, r.inputs[i], r),
                                      from |-> <<>>]]],
         i |-> 1]

\* the input the top frame is at
currentInput(stack) == stack[Len(stack)].node.inputs[stack[Len(stack)].i]

\* descends, refusing an item that is already being resolved (mutant)
descends_guarded(rs, stack, preferAltLocal) ==
    /\ findRecipeByProduct(rs, currentInput(stack).name, preferAltLocal) # <<>>
    /\ \A k \in 1..Len(stack) : stack[k].node.name # currentInput(stack).name

\* if (sub): the input the top frame is at has a recipe     (App.tsx:978-979)
descends(rs, stack, preferAltLocal) ==
    findRecipeByProduct(rs, currentInput(stack).name, preferAltLocal) # <<>>

InitBuild ==
    /\ recipes \in BuildDatasets
    /\ probe = NoProbe
    /\ UiIdle

\* buildChain(productName, rate, preferAltLocal) is called  (App.tsx:963-965)
CallBuildChain ==
    /\ probe = NoProbe
    /\ \E productName \in BuildItems, preferAltLocal \in BOOLEAN :
         LET rate == Num(30)
             none == findRecipeByProduct(recipes, productName, preferAltLocal) = <<>>
         IN  probe' = [fn |-> "buildChain.steps",
                       productName |-> productName,
                       rate |-> rate,
                       preferAltLocal |-> preferAltLocal,
                       stack |-> IF none THEN <<>>
                                 ELSE <<frameFor(recipes, productName, rate,
                                                 preferAltLocal, <<>>)>>,
                       returned |-> IF none THEN << <<>> >> ELSE <<>>]
    /\ UNCHANGED recipes
    /\ UiUnchanged

\* the recursive call for an input that has a recipe        (App.tsx:979-980)
Recurse ==
    /\ probe.fn = "buildChain.steps"
    /\ probe.stack # <<>>
    /\ Len(probe.stack) < MaxDepth
    /\ LET top == probe.stack[Len(probe.stack)]
       IN  /\ top.i <= Len(top.node.inputs)
           /\ descends(recipes, probe.stack, probe.preferAltLocal)
           /\ probe' = [probe EXCEPT !.stack =
                  Append(@, frameFor(recipes, top.node.inputs[top.i].name,
                                     top.node.inputs[top.i].rate,
                                     probe.preferAltLocal,
                                     Append(top.node.id, top.i - 1)))]
    /\ UNCHANGED recipes
    /\ UiUnchanged

\* an input without a recipe is returned as it is           (App.tsx:983)
LeaveRaw ==
    /\ probe.fn = "buildChain.steps"
    /\ probe.stack # <<>>
    /\ LET top == probe.stack[Len(probe.stack)]
       IN  /\ top.i <= Len(top.node.inputs)
           /\ ~descends(recipes, probe.stack, probe.preferAltLocal)
           /\ probe' = [probe EXCEPT !.stack[Len(probe.stack)].i = @ + 1]
    /\ UNCHANGED recipes
    /\ UiUnchanged

\* return node: to the caller's input slot, or to runPlanner (App.tsx:981-986)
ReturnNode ==
    /\ probe.fn = "buildChain.steps"
    /\ probe.stack # <<>>
    /\ LET d   == Len(probe.stack)
           top == probe.stack[d]
       IN  /\ top.i > Len(top.node.inputs)
           /\ IF d = 1
              THEN probe' = [probe EXCEPT !.stack = <<>>,
                                          !.returned = << <<top.node>> >>]
              ELSE probe' = [probe EXCEPT !.stack =
                     [k \in 1..(d - 1) |->
                        IF k < d - 1 THEN probe.stack[k]
                        ELSE [probe.stack[k] EXCEPT
                                !.node.inputs[probe.stack[k].i].from = <<top.node>>,
                                !.i = @ + 1]]]
    /\ UNCHANGED recipes
    /\ UiUnchanged

NextBuild == CallBuildChain \/ Recurse \/ LeaveRaw \/ ReturnNode

\* runPlanner runs synchronously to completion (no cancellation, no other
\* thread): a step that can be taken is taken
SpecBuild == InitBuild /\ [][NextBuild]_vars /\ WF_vars(NextBuild)

\* the inputs of the recipe chosen for an item, and what they lead to
Deps(rs, item, prefer) ==
    UNION { { r.inputs[j].name : j \in 1..Len(r.inputs) } : r \in Chosen(rs, item, prefer) }

RECURSIVE Closure(_, _, _)
Closure(rs, S, prefer) ==
    LET S2 == S \cup UNION { Deps(rs, x, prefer) : x \in S }
    IN  IF S2 = S THEN S ELSE Closure(rs, S2, prefer)

\* some item reachable from the target is among its own transitive inputs
CyclicFrom(rs, target, prefer) ==
    \E x \in Closure(rs, {target}, prefer) : x \in Closure(rs, Deps(rs, x, prefer), prefer)

BuildCalled == probe.fn = "buildChain.steps"

BuildCyclic == CyclicFrom(recipes, probe.productName, probe.preferAltLocal)

BuildReturned == probe.returned # <<>>

(* C7: a call of buildChain returns when the chosen recipes reachable from
   the target item form no cycle; when an item reachable from the target
   is among its own transitive inputs the call never returns and its stack
   grows to whatever depth the engine allows (here MaxDepth frames). *)
C7_Termination ==
    /\ (BuildCalled /\ ~BuildCyclic) ~> (BuildCalled /\ BuildReturned)
    /\ [](BuildCalled /\ BuildCyclic => ~BuildReturned)
    /\ (BuildCalled /\ BuildCyclic) ~> (BuildCalled /\ Len(probe.stack) = MaxDepth)

\* a cyclic request whose stack has reached the limit with the target item
\* being resolved again inside its own resolution, after a raw input was
\* passed over
C7_Witness ==
    /\ BuildCalled /\ BuildCyclic
    /\ Len(probe.stack) = MaxDepth
    /\ \E k \in 2..Len(probe.stack) : probe.stack[k].node.name = probe.productName
    /\ \E k \in 1..Len(probe.stack) : probe.stack[k].i > 1

\* an acyclic request that has returned a tree three nodes deep
C7_WitnessReturned ==
    /\ BuildCalled /\ ~BuildCyclic /\ BuildReturned
    /\ probe.returned[1] # <<>>
    /\ \E k \in 1..Len(nodesOf(probe.returned[1][1])) :
         Len(nodesOf(probe.returned[1][1])[k].id) = 2

\* the steps compute what buildChain computes
BuildStepsAgree ==
    BuildCalled /\ BuildReturned =>
      probe.returned[1] = buildChain(recipes, probe.productName, probe.rate,
                                     probe.preferAltLocal)

(***************************************************************************)
(* Geometry.  One unit is 0.1 m; M(n) is n metres.                         *)
(***************************************************************************)
M(n) == 10 * n

\* FOUNDATION_M = 8 m                              (constants.ts:3, App.tsx:855)
FOUNDATION_M == 80

\* ENTITY_PADDING_M = 0.4 m                                     (App.tsx:874)
ENTITY_PADDING_M == 4

\* BUS_SPACING = 8 m                                            (App.tsx:882)
BUS_SPACING == 80

\* BUS_MARGIN = 0.5 m                                           (App.tsx:883)
BUS_MARGIN == 5

\* BUILDINGS, sizes in metres                      (constants.ts:6-13, App.tsx:857-867)
BUILDINGS ==
    [smelter      |-> [w |-> 6,  h |-> 9,  inputs |-> 1, outputs |-> 1],
     constructor  |-> [w |-> 8,  h |-> 10, inputs |-> 1, outputs |-> 1],
     assembler    |-> [w |-> 10, h |-> 15, inputs |-> 2, outputs |-> 1],
     manufacturer |-> [w |-> 18, h |-> 20, inputs |-> 4, outputs |-> 1],
     splitter     |-> [w |-> 4,  h |-> 4,  inputs |-> 1, outputs |-> 3],
     merger       |-> [w |-> 4,  h |-> 4,  inputs |-> 3, outputs |-> 1]]

\* Math.round of v / d for d > 0: halves go up
RoundDiv(v, d) == (2 * v + d) \div (2 * d)

\* Math.floor of v units, in whole metres
FloorM(v) == M(v \div M(1))

\* snapToGrid (App.tsx:908): Math.round(m / gridStep) * gridStep
snapToGrid(v, step) == RoundDiv(v, M(step)) * M(step)

Min(S) == CHOOSE v \in S : \A u \in S : v <= u
Max(S) == CHOOSE v \in S : \A u \in S : v >= u

\* rectOfEntity (App.tsx:996-998); meta.w and meta.h are set by every code
\* path that creates an entity, in metres
rectOfEntity(e) == [x |-> e.x, y |-> e.y, w |-> M(e.w), h |-> M(e.h)]

\* expandRect (App.tsx:999-1001)
expandRect(r, m) == [x |-> r.x - m, y |-> r.y - m, w |-> r.w + 2 * m, h |-> r.h + 2 * m]

\* intersects (App.tsx:1002-1004)
intersects(a, b) ==
    ~(a.x + a.w <= b.x \/ b.x + b.w <= a.x \/ a.y + a.h <= b.y \/ b.y + b.h <= a.y)

\* collidesAny (App.tsx:1005-1008)
collidesAny(r, obs) ==
    LET rr == expandRect(r, ENTITY_PADDING_M)
    IN  \E i \in 1..Len(obs) : intersects(rr, rectOfEntity(obs[i]))

\* a variant of candidatesAt that probes the diagonals before the axes
candidatesAt_diagonalsFirst(x, y, r) ==
    << [x |-> x + r, y |-> y + r], [x |-> x - r, y |-> y + r],
       [x |-> x + r, y |-> y - r], [x |-> x - r, y |-> y - r],
       [x |-> x,     y |-> y + r], [x |-> x,     y |-> y - r],
       [x |-> x + r, y |-> y],     [x |-> x - r, y |-> y] >>

\* the eight probes of findFreePositionNear at radius r     (App.tsx:1014-1018)
candidatesAt(x, y, r) ==
    << [x |-> x,     y |-> y + r], [x |-> x,     y |-> y - r],
       [x |-> x + r, y |-> y],     [x |-> x - r, y |-> y],
       [x |-> x + r, y |-> y + r], [x |-> x - r, y |-> y + r],
       [x |-> x + r, y |-> y - r], [x |-> x - r, y |-> y - r] >>

\* one probe of App.tsx:1020: the candidate snapped, with the size w x h
probeRect(cand, w, h, step) ==
    [x |-> snapToGrid(cand.x, step), y |-> snapToGrid(cand.y, step),
     w |-> M(w), h |-> M(h)]

\* the probes of one ring that pass the test of App.tsx:1021, in the order
\* they are tried
freeAt(x, y, w, h, obs, step, r) ==
    SelectSeq([c \in 1..8 |-> probeRect(candidatesAt(x, y, M(r))[c], w, h, step)],
              LAMBDA rc : ~collidesAny(rc, obs))

\* findFreePositionNear (App.tsx:1010-1025) from radius r (in metres) on;
\* w and h in metres.  firstFree takes the free probes of ring r.  The
\* result is {x, y} with a history field: free tells that a free probe was
\* found, FALSE that the search was exhausted and (x, y) is the fallback.
RECURSIVE findFreeFrom(_, _, _, _, _, _, _)
firstFree(free, x, y, w, h, obs, step, r) ==
    IF free # <<>> THEN [x |-> free[1].x, y |-> free[1].y, free |-> TRUE]
    ELSE findFreeFrom(x, y, w, h, obs, step, r + 1)

findFreeFrom(x, y, w, h, obs, step, r) ==
    IF r > 40 THEN [x |-> x, y |-> y, free |-> FALSE]
    ELSE firstFree(freeAt(x, y, w, h, obs, step, r), x, y, w, h, obs, step, r)

findFreePositionNear(x, y, w, h, obs, step) == findFreeFrom(x, y, w, h, obs, step, 0)

(***************************************************************************)
(* Entities.  A PlacedEntity is [id, type, x, y, rotation, w, h, node];    *)
(* node is <<>> or <<ref>>, where ref stands for meta.node: the identity   *)
(* of the demand-tree node (its path), its recipeId and the number of its  *)
(* inputs, the three things the planner reads through the back-reference.  *)
(* Identifiers (Math.random().toString(36).slice(2, 9)) are modelled as    *)
(* fresh integers.  The field free is history: the position of the entity  *)
(* came from a search that found a free probe (FALSE: from its fallback).  *)
(***************************************************************************)
nodeRef(n) == [id |-> n.id, recipeId |-> n.recipeId, inputs |-> Len(n.inputs)]

maxId(ents) == Max({0} \cup { ents[i].id : i \in 1..Len(ents) })

\* a PlacedEntity of a building type at pos, unrotated, with meta.w and
\* meta.h of the type                    (App.tsx:950, 1059-1066, 1307-1310)
entityAt(id, type, pos, node) ==
    [id |-> id, type |-> type, x |-> pos.x, y |-> pos.y, rotation |-> 0,
     w |-> BUILDINGS[type].w, h |-> BUILDINGS[type].h, node |-> node,
     free |-> pos.free]

\* autoLayout (App.tsx:1028-1076) ------------------------------------------

\* layers[depth] of traverse (App.tsx:1030-1034): the nodes at that depth in
\* the order the depth-first walk reaches them
layerAt(root, depth) == SelectSeq(nodesOf(root), LAMBDA n : Len(n.id) = depth)

lastDepth(root) == Max({ Len(nodesOf(root)[k].id) : k \in 1..Len(nodesOf(root)) })

\* Math.max(1, Math.floor((FOUNDATION_M * 5.5) / (spec.w + spacing)))
perRowOf(spec) ==
    LET n == ((FOUNDATION_M * 55) \div 10) \div M(spec.w + 2)
    IN  IF n < 1 THEN 1 ELSE n

\* Math.floor of node.machines in place of the two Math.ceil (mutant)
machineCount_floored(node) ==
    node.machines.num \div node.machines.den

\* Math.ceil(Math.ceil(node.machines * 100) / 100)     (App.tsx:1046, 1050)
machineCount(node) ==
    LET count == Rat(RatCeil(RatMul(node.machines, Num(100))), 100)
    IN  RatCeil(count)

\* one turn of the while loop (App.tsx:1051-1068): machine number `placed` of
\* the node is put at the free position nearest its cell of the block and
\* pushed on obstacles
placeOne(node, placed, x, yBase, obstacles, step, idBase) ==
    Append(obstacles,
      entityAt(idBase + Len(obstacles) + 1, node.building,
        findFreePositionNear(
          snapToGrid(x + (placed % perRowOf(BUILDINGS[node.building]))
                           * M(BUILDINGS[node.building].w + 2), step),
          snapToGrid(yBase + (placed \div perRowOf(BUILDINGS[node.building]))
                               * M(BUILDINGS[node.building].h + 2), step),
          BUILDINGS[node.building].w, BUILDINGS[node.building].h,
          obstacles, step),
        <<nodeRef(node)>>))

\* the while loop of App.tsx:1050-1069 for one node, from machine `placed`
RECURSIVE placeMachines(_, _, _, _, _, _, _)
placeMachines(node, placed, x, yBase, obstacles, step, idBase) ==
    IF ~(placed < machineCount(node)) THEN obstacles
    ELSE placeMachines(node, placed + 1, x, yBase,
           placeOne(node, placed, x, yBase, obstacles, step, idBase),
           step, idBase)

\* nodes.forEach of App.tsx:1044-1072 from node k of the layer on
RECURSIVE placeNodes(_, _, _, _, _, _, _)
placeNodes(nodes, k, x, yBase, obstacles, step, idBase) ==
    IF k > Len(nodes) THEN obstacles
    ELSE placeNodes(nodes, k + 1,
                    x + perRowOf(BUILDINGS[nodes[k].building])
                          * M(BUILDINGS[nodes[k].building].w + 2) + M(12),
                    yBase,
                    placeMachines(nodes[k], 0, x, yBase, obstacles, step, idBase),
                    step, idBase)

\* layers.slice().reverse().forEach of App.tsx:1042-1074 from depth d down
RECURSIVE placeLayers(_, _, _, _, _, _, _)
placeLayers(root, d, originX, yBase, obstacles, step, idBase) ==
    IF d < 0 THEN obstacles
    ELSE placeLayers(root, d - 1, originX, yBase + M(12),
                     placeNodes(layerAt(root, d), 1, originX, yBase, obstacles,
                                step, idBase),
                     step, idBase)

\* autoLayout(root, originX, originY); the new identifiers follow idBase
autoLayout(root, originX, originY, step, idBase) ==
    placeLayers(root, lastDepth(root), originX, originY, <<>>, step, idBase)

(***************************************************************************)
(* Junctions, buses and belts.  A Belt is [mk, rate, item, src, dst,       *)
(* seen]: src and dst name the two ports handed to routeViaBus,            *)
(* outputPortOf(e, idx) and inputPortOf(e, idx), as [id |-> e.id,          *)
(* idx |-> idx]; the polyline routed between them and the display colour   *)
(* are left out of the record.                                             *)
(***************************************************************************)
\* inputsCount (App.tsx:1235-1239)
inputsCount(e) ==
    IF e.type = "merger" THEN 3
    ELSE IF e.node # <<>> /\ e.node[1].inputs # 0 THEN e.node[1].inputs
    ELSE BUILDINGS[e.type].inputs

\* outputsCount (App.tsx:1240-1243)
outputsCount(e) ==
    IF e.type = "splitter" THEN 3 ELSE BUILDINGS[e.type].outputs

\* entitiesForNode (App.tsx:1300-1303)
entitiesForNode(ens, node) ==
    SelectSeq(ens, LAMBDA e : e.node # <<>> /\ e.node[1].recipeId = node.recipeId)

\* placeSplitterNear (App.tsx:1305-1311); prod.y + h / 2 - spec.h / 2
placeSplitterNear(prod, obs, step) ==
    entityAt(maxId(obs) + 1, "splitter",
             findFreePositionNear(
               prod.x + M(prod.w) + M(1),
               prod.y + (M(prod.h) \div 2) - (M(BUILDINGS["splitter"].h) \div 2),
               BUILDINGS["splitter"].w, BUILDINGS["splitter"].h, obs, step),
             <<>>)

\* placeMergerNear (App.tsx:1312-1318)
placeMergerNear(cons, obs, step) ==
    entityAt(maxId(obs) + 1, "merger",
             findFreePositionNear(
               cons.x - M(BUILDINGS["merger"].w) - M(1),
               cons.y + (M(cons.h) \div 2) - (M(BUILDINGS["merger"].h) \div 2),
               BUILDINGS["merger"].w, BUILDINGS["merger"].h, obs, step),
             <<>>)

\* horizontalBlocked (App.tsx:1329-1339)
horizontalBlocked(y, x1, x2, obs) ==
    LET a == Min({x1, x2})
        b == Max({x1, x2})
    IN  \E i \in 1..Len(obs) :
          LET r == expandRect(rectOfEntity(obs[i]), BUS_MARGIN)
          IN  /\ y >= r.y /\ y <= r.y + r.h
              /\ ~(b <= r.x \/ a >= r.x + r.w)

\* the for loop of ensureBusY that keeps its last probe when every probe is
\* blocked (mutant)
RECURSIVE busProbe_keepsLast(_, _, _, _, _)
busProbe_keepsLast(base, k, xRange, obs, step) ==
    IF k >= 99 THEN snapToGrid(base + k * BUS_SPACING, step)
    ELSE LET y == snapToGrid(base + k * BUS_SPACING, step)
         IN  IF ~horizontalBlocked(y, xRange[1], xRange[2], obs) THEN y
             ELSE busProbe_keepsLast(base, k + 1, xRange, obs, step)

\* the for loop of ensureBusY from probe k on                (App.tsx:1348-1358)
RECURSIVE busProbe(_, _, _, _, _)
busProbe(base, k, xRange, obs, step) ==
    IF k >= 100 THEN snapToGrid(base, step)
    ELSE LET y == snapToGrid(base + k * BUS_SPACING, step)
         IN  IF ~horizontalBlocked(y, xRange[1], xRange[2], obs) THEN y
             ELSE busProbe(base, k + 1, xRange, obs, step)

\* the entry of an item in a bus map, <<>> when it has none
busOf(busMap, item) == SelectSeq(busMap, LAMBDA b : b.item = item)

\* ensureBusY without the lookup of App.tsx:1343 (mutant)
ensureBusY_noLookup(item, obs, xRange, busMap, step) ==
    Append(busMap,
           [item |-> item,
            y |-> busProbe(FloorM(Min(UNION { {obs[i].y, obs[i].y + M(obs[i].h)} :
                                              i \in 1..Len(obs) })
                                  + (FOUNDATION_M \div 2)),
                           0, xRange, obs, step)])

\* ensureBusY (App.tsx:1342-1359): the bus map after the call; the map is a
\* sequence of [item, y] in insertion order, which is also the order of
\* busVis (App.tsx:1423)
ensureBusY(item, obs, xRange, busMap, step) ==
    IF busOf(busMap, item) # <<>> THEN busMap
    ELSE LET ys   == UNION { {obs[i].y, obs[i].y + M(obs[i].h)} : i \in 1..Len(obs) }
             base == FloorM(Min(ys) + (FOUNDATION_M \div 2))
         IN  Append(busMap, [item |-> item, y |-> busProbe(base, 0, xRange, obs, step)])

\* a belt that is always of the first tier (mutant)
belt_firstTier(rate, item, srcEnt, srcIdx, dstEnt, dstIdx, obs) ==
    [mk |-> 1, rate |-> rate, item |-> item,
     src |-> [id |-> srcEnt.id, idx |-> srcIdx],
     dst |-> [id |-> dstEnt.id, idx |-> dstIdx],
     seen |-> Len(obs)]

\* one belt, as pushed at App.tsx:1435-1442 and alike; obs is the obstacle
\* list handed to routeViaBus for its segments.  The field seen is history:
\* the length of that list, which only grows during a call
belt(rate, item, srcEnt, srcIdx, dstEnt, dstIdx, obs) ==
    [mk |-> minBeltMkFor(rate), rate |-> rate, item |-> item,
     src |-> [id |-> srcEnt.id, idx |-> srcIdx],
     dst |-> [id |-> dstEnt.id, idx |-> dstIdx],
     seen |-> Len(obs)]

\* the junction memoised for an entity id, <<>> when there is none
junctionOf(memo, id) == SelectSeq(memo, LAMBDA j : j.owner = id)

(***************************************************************************)
(* planBeltsWithJunctions (App.tsx:1393-1563).  acc is the mutable state   *)
(* of one call: belts, extras, obstacles, splitterByProdId, mergerByConsId *)
(* (sequences of [owner, ent] in insertion order) and busMap.  Each stage  *)
(* of the code takes the state its predecessor left.                       *)
(***************************************************************************)
\* splitterByProdId.get(prod.id) and mergerByConsId.get(cons.id), once set
splitterOf(acc, prod) == junctionOf(acc.splitterByProdId, prod.id)[1].ent
mergerOf(acc, cons)   == junctionOf(acc.mergerByConsId, cons.id)[1].ent

\* addSplitter without obstacles.push(split) (mutant)
addSplitter_notObstacle(acc, prod, split, rate, item) ==
    [acc EXCEPT !.splitterByProdId = Append(@, [owner |-> prod.id, ent |-> split]),
                !.extras    = Append(@, split),
                !.belts     = Append(@, belt(rate, item, prod, 0, split, 0,
                                                 acc.obstacles))]

\* the body of `if (!split)` (App.tsx:1430-1442, 1498-1509) for a new
\* splitter: memoise it, add it to extras and obstacles, link prod to it
addSplitter(acc, prod, split, rate, item) ==
    [acc EXCEPT !.splitterByProdId = Append(@, [owner |-> prod.id, ent |-> split]),
                !.extras    = Append(@, split),
                !.obstacles = Append(@, split),
                !.belts     = Append(@, belt(rate, item, prod, 0, split, 0,
                                                 Append(acc.obstacles, split)))]

\* withSplitter that places a splitter without consulting the map (mutant)
withSplitter_always(acc, prod, rate, item, step) ==
    addSplitter(acc, prod, placeSplitterNear(prod, acc.obstacles, step), rate, item)

\* `let split = splitterByProdId.get(prod.id); if (!split) { ... }`
withSplitter(acc, prod, rate, item, step) ==
    IF junctionOf(acc.splitterByProdId, prod.id) # <<>> THEN acc
    ELSE addSplitter(acc, prod, placeSplitterNear(prod, acc.obstacles, step),
                     rate, item)

\* the body of `if (!merge)` (App.tsx:1464-1476, 1517-1528) for a new
\* merger: memoise it, add it to extras and obstacles, link it to cons
addMerger(acc, cons, merge, rate, item, inputIndex) ==
    [acc EXCEPT !.mergerByConsId = Append(@, [owner |-> cons.id, ent |-> merge]),
                !.extras    = Append(@, merge),
                !.obstacles = Append(@, merge),
                !.belts     = Append(@, belt(rate, item, merge, 0, cons, inputIndex,
                                                 Append(acc.obstacles, merge)))]

\* `let merge = mergerByConsId.get(cons.id); if (!merge) { ... }`
withMerger(acc, cons, rate, item, inputIndex, step) ==
    IF junctionOf(acc.mergerByConsId, cons.id) # <<>> THEN acc
    ELSE addMerger(acc, cons, placeMergerNear(cons, acc.obstacles, step),
                   rate, item, inputIndex)

\* splitBranches whose links each carry the whole rate of the edge (mutant)
splitBranches_fullRate(acc, edge, prod, consumers) ==
    [acc EXCEPT !.belts = @ \o
       [j \in 1..Len(consumers) |->
          belt(edge.rate, edge.item,
               splitterOf(acc, prod), (j - 1) % outputsCount(splitterOf(acc, prod)),
               consumers[j], edge.inputIndex, acc.obstacles)]]

\* consumers.forEach of App.tsx:1445-1455
splitBranches(acc, edge, prod, consumers) ==
    [acc EXCEPT !.belts = @ \o
       [j \in 1..Len(consumers) |->
          belt(RatDiv(edge.rate, Num(Len(consumers))), edge.item,
               splitterOf(acc, prod), (j - 1) % outputsCount(splitterOf(acc, prod)),
               consumers[j], edge.inputIndex, acc.obstacles)]]

\* 1 -> N (split)                                         (App.tsx:1425-1457)
planSplit(acc, edge, producers, consumers, step) ==
    splitBranches(withSplitter(acc, producers[1], edge.rate, edge.item, step),
                  edge, producers[1], consumers)

\* producers.forEach of App.tsx:1479-1489
mergeBranches(acc, edge, producers, cons) ==
    [acc EXCEPT !.belts = @ \o
       [j \in 1..Len(producers) |->
          belt(RatDiv(edge.rate, Num(Len(producers))), edge.item,
               producers[j], 0,
               mergerOf(acc, cons), (j - 1) % inputsCount(mergerOf(acc, cons)),
               acc.obstacles)]]

\* N -> 1 (merge)                                         (App.tsx:1459-1491)
planMerge(acc, edge, producers, consumers, step) ==
    mergeBranches(withMerger(acc, consumers[1], edge.rate, edge.item,
                             edge.inputIndex, step),
                  edge, producers, consumers[1])

\* producers.map of App.tsx:1495-1512 from producer k on; the splitters
\* array is splitterOf of each producer
RECURSIVE ensureSplitters(_, _, _, _, _)
ensureSplitters(acc, edge, producers, k, step) ==
    IF k > Len(producers) THEN acc
    ELSE ensureSplitters(
           withSplitter(acc, producers[k], RatDiv(edge.rate, Num(Len(producers))),
                        edge.item, step),
           edge, producers, k + 1, step)

\* consumers.map of App.tsx:1514-1531 from consumer k on; the mergers array
\* is mergerOf of each consumer
RECURSIVE ensureMergers(_, _, _, _, _)
ensureMergers(acc, edge, consumers, k, step) ==
    IF k > Len(consumers) THEN acc
    ELSE ensureMergers(
           withMerger(acc, consumers[k], RatDiv(edge.rate, Num(Len(consumers))),
                      edge.item, edge.inputIndex, step),
           edge, consumers, k + 1, step)

\* meshBelts whose links each carry the share of one producer, T / N (mutant)
meshBelts_perProducer(acc, edge, producers, consumers) ==
    [acc EXCEPT !.belts = @ \o
       [q \in 1..(Len(producers) * Len(consumers)) |->
          belt(RatDiv(edge.rate, Num(Len(producers))),
               edge.item,
               splitterOf(acc, producers[((q - 1) \div Len(consumers)) + 1]),
               ((q - 1) % Len(consumers)) % 3,
               mergerOf(acc, consumers[((q - 1) % Len(consumers)) + 1]), 0,
               acc.obstacles)]]

\* splitters.forEach(s => mergers.forEach((m, k) => ...)) (App.tsx:1533-1546);
\* belt q joins splitter (q - 1) \div |mergers| to merger (q - 1) % |mergers|
meshBelts(acc, edge, producers, consumers) ==
    [acc EXCEPT !.belts = @ \o
       [q \in 1..(Len(producers) * Len(consumers)) |->
          belt(RatDiv(RatDiv(edge.rate, Num(Max({1, Len(producers)}))),
                      Num(Len(consumers))),
               edge.item,
               splitterOf(acc, producers[((q - 1) \div Len(consumers)) + 1]),
               ((q - 1) % Len(consumers))
                 % outputsCount(splitterOf(acc,
                                  producers[((q - 1) \div Len(consumers)) + 1])),
               mergerOf(acc, consumers[((q - 1) % Len(consumers)) + 1]), 0,
               acc.obstacles)]]

\* N -> N (split + merge)                                 (App.tsx:1493-1548)
planMesh(acc, edge, producers, consumers, step) ==
    meshBelts(ensureMergers(ensureSplitters(acc, edge, producers, 1, step),
                            edge, consumers, 1, step),
              edge, producers, consumers)

\* the four cases of App.tsx:1425-1559 for producers and consumers resolved
planResolved(acc, edge, producers, consumers, step) ==
    IF Len(producers) = 1 /\ Len(consumers) > 1
      THEN planSplit(acc, edge, producers, consumers, step)
    ELSE IF Len(producers) > 1 /\ Len(consumers) = 1
      THEN planMerge(acc, edge, producers, consumers, step)
    ELSE IF Len(producers) > 1 /\ Len(consumers) > 1
      THEN planMesh(acc, edge, producers, consumers, step)
    ELSE [acc EXCEPT !.belts = Append(@,
            belt(edge.rate, edge.item, producers[1], 0,
                 consumers[1], edge.inputIndex, acc.obstacles))]

\* the body of edges.forEach                              (App.tsx:1412-1560)
planEdge(acc, edge, xRange, step) ==
    IF \/ entitiesForNode(acc.obstacles, edge.from) = <<>>
       \/ entitiesForNode(acc.obstacles, edge.to) = <<>>
    THEN acc
    ELSE planResolved(
           [acc EXCEPT !.busMap = ensureBusY(edge.item, acc.obstacles, xRange, @, step)],
           edge,
           entitiesForNode(acc.obstacles, edge.from),
           entitiesForNode(acc.obstacles, edge.to),
           step)

RECURSIVE planEdges(_, _, _, _, _)
planEdges(acc, edges, k, xRange, step) ==
    IF k > Len(edges) THEN acc
    ELSE planEdges(planEdge(acc, edges[k], xRange, step), edges, k + 1, xRange, step)

\* xRange (App.tsx:1400-1403) over the x extents xs; without any entity
\* Math.min() is Infinity and no edge is planned
xRangeOf(xs) == IF xs = {} THEN <<0, 0>> ELSE <<Min(xs) - M(6), Max(xs) + M(18)>>

\* `return { belts, extras, buses: busVis }`                  (App.tsx:1562)
planned(acc) == [belts |-> acc.belts, extras |-> acc.extras, buses |-> acc.busMap]

\* planBeltsWithJunctions(allEntities, root): [belts, extras, buses]
planBeltsWithJunctions(allEntities, root, step) ==
    planned(planEdges([belts |-> <<>>, extras |-> <<>>, obstacles |-> allEntities,
                       splitterByProdId |-> <<>>, mergerByConsId |-> <<>>,
                       busMap |-> <<>>],
                      collectEdges(root), 1,
                      xRangeOf(UNION { {allEntities[i].x,
                                        allEntities[i].x + M(allEntities[i].w)} :
                                       i \in 1..Len(allEntities) }),
                      step))

\* App.tsx:1577-1579: what runPlanner publishes
published(combined, plan) ==
    [entities |-> combined \o plan.extras, belts |-> plan.belts, buses |-> plan.buses]

\* App.tsx:1575 on
planCombined(combined, root, step) ==
    published(combined, planBeltsWithJunctions(combined, root, step))

\* App.tsx:1571-1573: the entities kept and the new placement after them
planKept(kept, root, step) ==
    planCombined(kept \o autoLayout(root, M(8), M(8), step, maxId(kept)), root, step)

\* runPlanner from App.tsx:1569 on, for the chain built
planChain(chain, step, ents, oldBelts, oldBuses) ==
    IF chain = <<>>
    THEN [entities |-> ents, belts |-> oldBelts, buses |-> oldBuses]
    ELSE planKept(SelectSeq(ents, LAMBDA e : e.node = <<>>), chain[1], step)

\* runPlanner that clears the published belts and buses when it gives up
\* (mutant)
runPlanner_clearsFirst(rs, item, rate, prefer, step, ents, oldBelts, oldBuses) ==
    IF item = "" THEN [entities |-> ents, belts |-> <<>>, buses |-> <<>>]
    ELSE planChain(buildChain(rs, item, rate, prefer), step, ents, <<>>, <<>>)

\* runPlanner (App.tsx:1566-1580): the entities, belts and buses it leaves
runPlanner(rs, item, rate, prefer, step, ents, oldBelts, oldBuses) ==
    IF item = "" THEN [entities |-> ents, belts |-> oldBelts, buses |-> oldBuses]
    ELSE planChain(buildChain(rs, item, rate, prefer), step, ents, oldBelts, oldBuses)

(***************************************************************************)
(* Spec: the planner as the user drives it.  Init is FactoryPlanner once   *)
(* mounted: the state of App.tsx:889-903 after the effect of               *)
(* App.tsx:910-915 has loaded RECIPES_DATA.  Every handler is one action;  *)
(* the values a control can deliver are drawn from the small sets below,   *)
(* and at most MaxSteps handlers run.  The rotation of a placed building   *)
(* (placingRotation) is not read by the planner and is kept at 0.          *)
(***************************************************************************)
MaxSteps == 4

\* productList (App.tsx:913-914): the product names of the loaded recipes
productList == { recipes[i].product.name : i \in 1..Len(recipes) }

\* hasAlt (App.tsx:917-921)
hasAlt ==
    /\ targetItem # ""
    /\ \E i \in 1..Len(recipes) :
         recipes[i].product.name = targetItem /\ recipes[i].alt

\* the rates typed into the rate field, 0 included (parseFloat, App.tsx:1805)
TargetRates == { Num(0), Num(15), Num(30), Num(60) }

\* the grid steps offered (App.tsx:1607-1612)
GridSteps == {1, 2, 4, 8}

\* the palette buttons used (App.tsx:1633-1637)
PaletteChoices == {"constructor", "splitter"}

\* the board positions clicked, in metres before snapping (App.tsx:943-944)
ClickPoints == { <<M(8), M(8)>>, <<M(21), M(9)>> }

Did(op, ok) ==
    /\ steps < MaxSteps
    /\ steps' = steps + 1
    /\ lastOp' = [op |-> op, ok |-> ok]
    /\ UNCHANGED <<recipes, probe>>

Init ==
    /\ recipes = RECIPES_DATA
    /\ UiIdle
    /\ probe = NoProbe

\* <select> of the grid step (App.tsx:1607)
SetGridStep ==
    \E g \in GridSteps \ {gridStep} :
      /\ gridStep' = g
      /\ Did("setGridStep", TRUE)
      /\ UNCHANGED <<tool, palette, targetItem, targetRate, preferAlt,
                     entities, belts, buses>>

\* tool buttons (App.tsx:1623-1624)
SetTool ==
    \E t \in {"select", "place"} \ {tool} :
      /\ tool' = t
      /\ Did("setTool", TRUE)
      /\ UNCHANGED <<gridStep, palette, targetItem, targetRate, preferAlt,
                     entities, belts, buses>>

\* palette button (App.tsx:1637): setPalette(b.id); setTool("place")
PickPalette ==
    \E b \in PaletteChoices :
      /\ palette' = b
      /\ tool' = "place"
      /\ Did("pickPalette", TRUE)
      /\ UNCHANGED <<gridStep, targetItem, targetRate, preferAlt,
                     entities, belts, buses>>

\* handleBoardClick with addEntity (App.tsx:935-937, 940-952)
HandleBoardClick ==
    \E c \in ClickPoints :
      /\ Did("handleBoardClick", tool = "place")
      /\ entities' =
           IF tool = "place"
           THEN Append(entities,
                  entityAt(maxId(entities) + 1, palette,
                    findFreePositionNear(snapToGrid(c[1], gridStep),
                                         snapToGrid(c[2], gridStep),
                                         BUILDINGS[palette].w, BUILDINGS[palette].h,
                                         entities, gridStep),
                    <<>>))
           ELSE entities
      /\ UNCHANGED <<gridStep, tool, palette, targetItem, targetRate,
                     preferAlt, belts, buses>>

\* removeEntity (App.tsx:938), from the button of a drawn entity
RemoveEntity ==
    \E k \in 1..Len(entities) :
      /\ entities' = SelectSeq(entities, LAMBDA p : p.id # entities[k].id)
      /\ Did("removeEntity", TRUE)
      /\ UNCHANGED <<gridStep, tool, palette, targetItem, targetRate,
                     preferAlt, belts, buses>>

\* <select> of the target product (App.tsx:1791-1794)
SetTargetItem ==
    \E name \in (productList \cup {""}) \ {targetItem} :
      /\ targetItem' = name
      /\ Did("setTargetItem", TRUE)
      /\ UNCHANGED <<gridStep, tool, palette, targetRate, preferAlt,
                     entities, belts, buses>>

\* checkbox of the alternative recipe, drawn when hasAlt (App.tsx:1796-1801)
SetPreferAlt ==
    /\ hasAlt
    /\ preferAlt' = ~preferAlt
    /\ Did("setPreferAlt", TRUE)
    /\ UNCHANGED <<gridStep, tool, palette, targetItem, targetRate,
                   entities, belts, buses>>

\* rate field (App.tsx:1805)
SetTargetRate ==
    \E r \in TargetRates \ {targetRate} :
      /\ targetRate' = r
      /\ Did("setTargetRate", TRUE)
      /\ UNCHANGED <<gridStep, tool, palette, targetItem, preferAlt,
                     entities, belts, buses>>

\* setEntities, setBelts, setBuses                        (App.tsx:1577-1579)
Publish(out) ==
    /\ entities' = out.entities
    /\ belts' = out.belts
    /\ buses' = out.buses

\* button "Générer le layout" (App.tsx:1808): runPlanner
RunPlanner ==
    /\ Did("runPlanner",
           targetItem # ""
             /\ buildChain(recipes, targetItem, targetRate, preferAlt) # <<>>)
    /\ Publish(runPlanner(recipes, targetItem, targetRate, preferAlt, gridStep,
                          entities, belts, buses))
    /\ UNCHANGED <<gridStep, tool, palette, targetItem, targetRate, preferAlt>>

Next ==
    \/ SetGridStep
    \/ SetTool
    \/ PickPalette
    \/ HandleBoardClick
    \/ RemoveEntity
    \/ SetTargetItem
    \/ SetPreferAlt
    \/ SetTargetRate
    \/ RunPlanner

Spec == Init /\ [][Next]_vars

(***************************************************************************)
(* Properties of a planning request.  After RunPlanner the request is      *)
(* still in targetItem, targetRate, preferAlt and gridStep, so the demand  *)
(* tree it planned is rebuilt from them.                                    *)
(***************************************************************************)
PlanRan == lastOp.op = "runPlanner" /\ lastOp.ok
PlanAborted == lastOp.op = "runPlanner" /\ ~lastOp.ok

PlanRoot == buildChain(recipes, targetItem, targetRate, preferAlt)[1]
PlanEdges == collectEdges(PlanRoot)

\* the instances an edge resolves to (App.tsx:1413-1414); junctions carry no
\* node, so the published entities resolve as the obstacles did
ProducersOfEdge(e) == entitiesForNode(entities, e.from)
ConsumersOfEdge(e) == entitiesForNode(entities, e.to)

ProducersOfEdgeIn(acc, e) == entitiesForNode(acc.obstacles, e.from)
ConsumersOfEdgeIn(acc, e) == entitiesForNode(acc.obstacles, e.to)

BeltsOut(srcId) == SelectSeq(belts, LAMBDA b : b.src.id = srcId)
BeltsBetween(srcId, dstId) ==
    SelectSeq(belts, LAMBDA b : b.src.id = srcId /\ b.dst.id = dstId)

RECURSIVE RateSum(_)
RateSum(bs) ==
    IF bs = <<>> THEN Num(0)
    ELSE IF Len(bs) = 1 THEN bs[1].rate
    ELSE RatAdd(RateSum(SubSeq(bs, 1, Len(bs) \div 2)),
                RateSum(SubSeq(bs, Len(bs) \div 2 + 1, Len(bs))))

\* C6: a planning request whose target item has no recipe aborts: buildChain
\* gives none, and the published entities, belts and buses after the request
\* are exactly those before it.
C6_AbortLeavesPlan ==
    [][ ( /\ lastOp'.op = "runPlanner"
          /\ steps' = steps + 1
          /\ findRecipeByProduct(recipes, targetItem, preferAlt) = <<>> )
        => /\ buildChain(recipes, targetItem, targetRate, preferAlt) = <<>>
           /\ ~lastOp'.ok
           /\ entities' = entities
           /\ belts' = belts
           /\ buses' = buses ]_vars

\* C6 witness: a request without a recipe has aborted on a board that holds
\* a published plan (entities, belts and buses of an earlier request).
C6_Witness ==
    /\ PlanAborted
    /\ findRecipeByProduct(recipes, targetItem, preferAlt) = <<>>
    /\ \E i \in 1..Len(entities) : entities[i].node # <<>>
    /\ belts # <<>>
    /\ buses # <<>>

FanOutEdge(e) == Len(ProducersOfEdge(e)) = 1 /\ Len(ConsumersOfEdge(e)) > 1

\* the links of a fan-out edge: one producer-to-splitter link of rate T, and
\* from that splitter exactly N links, one to the edge's input slot of each
\* consumer, each of rate T / N, summing to T
FanOutPlanned(e) ==
    LET prod == ProducersOfEdge(e)[1]
        cons == ConsumersOfEdge(e)
        N    == Len(cons)
    IN  \E s \in 1..Len(entities) :
          LET trunk == BeltsBetween(prod.id, entities[s].id)
              out   == BeltsOut(entities[s].id)
          IN  /\ entities[s].type = "splitter"
              /\ BeltsOut(prod.id) = trunk
              /\ Len(trunk) = 1
              /\ trunk[1].rate = e.rate /\ trunk[1].item = e.item
              /\ trunk[1].dst.idx = 0
              /\ Len(out) = N
              /\ \A j \in 1..N :
                   Cardinality({ i \in 1..N :
                     out[i].dst = [id |-> cons[j].id, idx |-> e.inputIndex] }) = 1
              /\ \A i \in 1..N :
                   /\ out[i].rate = RatDiv(e.rate, Num(N))
                   /\ out[i].item = e.item
                   /\ out[i].src.idx = (i - 1) % 3
              /\ RateSum(out) = e.rate

\* C9: fan-out: for every edge of rate T resolved to exactly 1 producer
\* instance and N > 1 consumer instances, the plan holds a producer-to-splitter
\* link carrying T and exactly N splitter-to-consumer links, one per consumer
\* instance and ending at that consumer's input slot of the edge, each
\* carrying T / N, so that the N branch rates sum to T exactly.
C9_FanOut ==
    PlanRan =>
      \A k \in 1..Len(PlanEdges) :
        FanOutEdge(PlanEdges[k]) => FanOutPlanned(PlanEdges[k])

\* C9 witness: a plan with a fan-out edge to four consumers (more than the
\* three outputs of a splitter), planned as the claim says.
C9_Witness ==
    /\ PlanRan
    /\ \E k \in 1..Len(PlanEdges) :
         /\ FanOutEdge(PlanEdges[k])
         /\ Len(ConsumersOfEdge(PlanEdges[k])) = 4
         /\ FanOutPlanned(PlanEdges[k])

FanInEdge(e) == Len(ProducersOfEdge(e)) > 1 /\ Len(ConsumersOfEdge(e)) = 1

\* the links of a fan-in edge: a merger with one link of rate T / N from each
\* of the N producers, summing to T, and a link of rate T from the merger to
\* the edge's input slot of the consumer
FanInPlanned(e) ==
    LET prods == ProducersOfEdge(e)
        cons  == ConsumersOfEdge(e)[1]
        N     == Len(prods)
    IN  \E m \in 1..Len(entities) :
          LET feeds == SelectSeq(belts, LAMBDA b :
                         b.dst.id = entities[m].id /\ b.item = e.item)
          IN  /\ entities[m].type = "merger"
              /\ Len(feeds) = N
              /\ \A j \in 1..N : Len(BeltsBetween(prods[j].id, entities[m].id)) = 1
              /\ \A i \in 1..N : feeds[i].rate = RatDiv(e.rate, Num(N))
              /\ RateSum(feeds) = e.rate
              /\ \E i \in 1..Len(belts) :
                   /\ belts[i].src.id = entities[m].id
                   /\ belts[i].dst = [id |-> cons.id, idx |-> e.inputIndex]
                   /\ belts[i].rate = e.rate
                   /\ belts[i].item = e.item

\* C10: fan-in: for every edge of rate T resolved to N > 1 producer
\* instances and exactly 1 consumer instance, including the second and later
\* such edges into the same consumer, the plan holds exactly N
\* producer-to-merger links each carrying T / N (summing to T) and a
\* merger-to-consumer link carrying T that ends at the consumer's input slot
\* of that edge.
C10_FanIn ==
    PlanRan =>
      \A k \in 1..Len(PlanEdges) :
        FanInEdge(PlanEdges[k]) => FanInPlanned(PlanEdges[k])

\* C10 for the first fan-in edge into each consumer only
C10_FirstFanIn ==
    PlanRan =>
      \A k \in 1..Len(PlanEdges) :
        ( /\ FanInEdge(PlanEdges[k])
          /\ \A j \in 1..(k - 1) :
               FanInEdge(PlanEdges[j]) =>
                 ConsumersOfEdge(PlanEdges[j]) # ConsumersOfEdge(PlanEdges[k]) )
        => FanInPlanned(PlanEdges[k])

\* C10 witness: a plan with two fan-in edges into one consumer instance.
C10_Witness ==
    /\ PlanRan
    /\ \E j, k \in 1..Len(PlanEdges) :
         /\ j < k
         /\ FanInEdge(PlanEdges[j]) /\ FanInEdge(PlanEdges[k])
         /\ ConsumersOfEdge(PlanEdges[j]) = ConsumersOfEdge(PlanEdges[k])

EntityById(id) == SelectSeq(entities, LAMBDA e : e.id = id)
TypeOfId(id) == IF EntityById(id) = <<>> THEN "none" ELSE EntityById(id)[1].type

\* the splitters fed by a producer and the mergers feeding a consumer
SplitterIdsOf(p) ==
    { belts[i].dst.id : i \in { j \in 1..Len(belts) :
        belts[j].src.id = p.id /\ TypeOfId(belts[j].dst.id) = "splitter" } }
MergerIdsOf(c) ==
    { belts[i].src.id : i \in { j \in 1..Len(belts) :
        belts[j].dst.id = c.id /\ TypeOfId(belts[j].src.id) = "merger" } }

MeshEdge(e) == Len(ProducersOfEdge(e)) > 1 /\ Len(ConsumersOfEdge(e)) > 1

\* the links of the edge between the splitters of its producers and the
\* mergers of its consumers
MeshLinks(e) ==
    SelectSeq(belts, LAMBDA b :
      /\ b.item = e.item
      /\ \E j \in 1..Len(ProducersOfEdge(e)) :
           b.src.id \in SplitterIdsOf(ProducersOfEdge(e)[j])
      /\ \E j \in 1..Len(ConsumersOfEdge(e)) :
           b.dst.id \in MergerIdsOf(ConsumersOfEdge(e)[j]))

MeshPlanned(e) ==
    LET prods == ProducersOfEdge(e)
        cons  == ConsumersOfEdge(e)
        N     == Len(prods)
        K     == Len(cons)
        links == MeshLinks(e)
    IN  /\ \A j \in 1..N : Cardinality(SplitterIdsOf(prods[j])) = 1
        /\ \A j \in 1..K : Cardinality(MergerIdsOf(cons[j])) = 1
        /\ Len(links) = N * K
        /\ \A j \in 1..N : \A k \in 1..K :
             Cardinality({ i \in 1..Len(links) :
               /\ links[i].src.id \in SplitterIdsOf(prods[j])
               /\ links[i].dst.id \in MergerIdsOf(cons[k]) }) = 1
        /\ \A i \in 1..Len(links) : links[i].rate = RatDiv(e.rate, Num(N * K))
        /\ RateSum(links) = e.rate

\* C11: many-to-many: for every edge of rate T resolved to N > 1 producer
\* instances and M > 1 consumer instances, the plan links every splitter to
\* every merger (exactly N * M mesh links), each carrying T / (N * M), so the
\* mesh link rates sum to T.
C11_Mesh ==
    PlanRan =>
      \A k \in 1..Len(PlanEdges) :
        MeshEdge(PlanEdges[k]) => MeshPlanned(PlanEdges[k])

\* C11 witness: a plan with a many-to-many edge of at least 8 mesh links whose
\* rate T / (N * M) is not a whole number.
C11_Witness ==
    /\ PlanRan
    /\ \E k \in 1..Len(PlanEdges) :
         /\ MeshEdge(PlanEdges[k])
         /\ Len(MeshLinks(PlanEdges[k])) >= 8
         /\ MeshLinks(PlanEdges[k])[1].rate.den > 1
         /\ MeshPlanned(PlanEdges[k])

(***************************************************************************)
(* SpecPlan: one planning request, with planBeltsWithJunctions run one     *)
(* edge at a time.  Init is a board with the request chosen (a product of  *)
(* the list, a rate, the alternative flag, a grid step) and nothing or one *)
(* hand-placed building on it.  probe holds the locals of the running      *)
(* call: the index k of the next edge, acc, acc before the last edge       *)
(* (prev), combined and xRange.                                            *)
(***************************************************************************)
PlanRates == { Num(15), Num(30), Num(60) }

PlanGridSteps == {1, 8}

\* the boards a request starts from: empty, or one building placed by hand
PlanBoards ==
    { <<>>,
      <<entityAt(1, "splitter", [x |-> M(8), y |-> M(8), free |-> TRUE], <<>>)>>,
      <<entityAt(1, "constructor", [x |-> M(16), y |-> M(24), free |-> TRUE], <<>>)>> }

InitPlan ==
    /\ recipes = RECIPES_DATA
    /\ tool = "select"
    /\ palette = "constructor"
    /\ gridStep \in PlanGridSteps
    /\ targetItem \in { RECIPES_DATA[i].product.name : i \in 1..Len(RECIPES_DATA) }
    /\ targetRate \in PlanRates
    /\ preferAlt \in BOOLEAN
    /\ entities \in PlanBoards
    /\ belts = <<>>
    /\ buses = <<>>
    /\ lastOp = NoOp
    /\ steps = 0
    /\ probe = NoProbe

\* the locals of planBeltsWithJunctions at its entry (App.tsx:1394-1408)
planEntry(combined) ==
    [fn |-> "planBeltsWithJunctions", k |-> 1, combined |-> combined,
     xRange |-> xRangeOf(UNION { {combined[i].x, combined[i].x + M(combined[i].w)} :
                                 i \in 1..Len(combined) }),
     acc  |-> [belts |-> <<>>, extras |-> <<>>, obstacles |-> combined,
               splitterByProdId |-> <<>>, mergerByConsId |-> <<>>, busMap |-> <<>>],
     prev |-> [belts |-> <<>>, extras |-> <<>>, obstacles |-> combined,
               splitterByProdId |-> <<>>, mergerByConsId |-> <<>>, busMap |-> <<>>]]

\* runPlanner up to the call of planBeltsWithJunctions (App.tsx:1566-1575)
CallPlanner ==
    /\ probe = NoProbe
    /\ targetItem # ""
    /\ buildChain(recipes, targetItem, targetRate, preferAlt) # <<>>
    /\ probe' = planEntry(SelectSeq(entities, LAMBDA e : e.node = <<>>)
                          \o autoLayout(PlanRoot, M(8), M(8), gridStep,
                                        maxId(SelectSeq(entities,
                                                        LAMBDA e : e.node = <<>>))))
    /\ UNCHANGED <<recipes>>
    /\ UiUnchanged

\* one turn of edges.forEach (App.tsx:1412-1560)
PlanNextEdge ==
    /\ probe.fn = "planBeltsWithJunctions"
    /\ probe.k <= Len(PlanEdges)
    /\ probe' = [probe EXCEPT
                   !.k    = @ + 1,
                   !.prev = probe.acc,
                   !.acc  = planEdge(probe.acc, PlanEdges[probe.k], probe.xRange,
                                     gridStep)]
    /\ UNCHANGED <<recipes>>
    /\ UiUnchanged

\* the return of planBeltsWithJunctions and the end of runPlanner
\* (App.tsx:1562, 1577-1579)
ReturnPlan ==
    /\ probe.fn = "planBeltsWithJunctions"
    /\ probe.k > Len(PlanEdges)
    /\ probe' = [probe EXCEPT !.fn = "planned"]
    /\ Publish(published(probe.combined, planned(probe.acc)))
    /\ lastOp' = [op |-> "runPlanner", ok |-> TRUE]
    /\ steps' = steps + 1
    /\ UNCHANGED <<recipes, gridStep, tool, palette, targetItem, targetRate, preferAlt>>

NextPlan ==
    \/ CallPlanner
    \/ PlanNextEdge
    \/ ReturnPlan

SpecPlan == InitPlan /\ [][NextPlan]_vars

Planning == probe.fn = "planBeltsWithJunctions"

\* the steps publish what runPlanner publishes
PlanStepsAgree ==
    probe.fn = "planned" =>
      [entities |-> entities, belts |-> belts, buses |-> buses]
        = runPlanner(recipes, targetItem, targetRate, preferAlt, gridStep,
                     SelectSeq(probe.combined, LAMBDA e : e.node = <<>>),
                     <<>>, <<>>)

Owners(memo) == [i \in 1..Len(memo) |-> memo[i].owner]
Distinct(seq) == \A i, j \in 1..Len(seq) : i # j => seq[i] # seq[j]
IsPrefix(a, b) == Len(a) <= Len(b) /\ \A i \in 1..Len(a) : a[i] = b[i]
OfType(ents, type) == SelectSeq(ents, LAMBDA e : e.type = type)

\* C12: junction deduplication: after any prefix of the edges of one
\* planning run, at most one splitter has been created for any producing
\* entity and at most one merger for any consuming entity; every junction
\* created is the one of its owner, and an edge that touches an entity already
\* owning a junction reuses that junction and creates no new one (the
\* junctions held before the edge are all still held, unchanged, after it,
\* and each new junction belongs to an entity that owned none).
C12_JunctionDedup ==
    Planning =>
      /\ Distinct(Owners(probe.acc.splitterByProdId))
      /\ Distinct(Owners(probe.acc.mergerByConsId))
      /\ Len(OfType(probe.acc.extras, "splitter")) = Len(probe.acc.splitterByProdId)
      /\ Len(OfType(probe.acc.extras, "merger")) = Len(probe.acc.mergerByConsId)
      /\ Distinct([i \in 1..Len(probe.acc.extras) |-> probe.acc.extras[i].id])
      /\ IsPrefix(probe.prev.splitterByProdId, probe.acc.splitterByProdId)
      /\ IsPrefix(probe.prev.mergerByConsId, probe.acc.mergerByConsId)
      /\ IsPrefix(probe.prev.extras, probe.acc.extras)

\* C12 witness: an edge has just been processed that touched entities already
\* owning a splitter and entities already owning a merger, and created no
\* junction.
C12_Witness ==
    /\ Planning
    /\ probe.k > 1
    /\ probe.acc.extras = probe.prev.extras
    /\ \E j \in 1..Len(ProducersOfEdgeIn(probe.prev, PlanEdges[probe.k - 1])) :
         junctionOf(probe.prev.splitterByProdId,
                    ProducersOfEdgeIn(probe.prev, PlanEdges[probe.k - 1])[j].id) # <<>>
    /\ \E j \in 1..Len(ConsumersOfEdgeIn(probe.prev, PlanEdges[probe.k - 1])) :
         junctionOf(probe.prev.mergerByConsId,
                    ConsumersOfEdgeIn(probe.prev, PlanEdges[probe.k - 1])[j].id) # <<>>
    /\ Len(probe.acc.belts) > Len(probe.prev.belts)

\* the rectangle of an entity expanded by the padding of the search
PaddedRect(e) == expandRect(rectOfEntity(e), ENTITY_PADDING_M)

\* C13: collision invariant: after a full planning run, for every pair of
\* distinct placed entities in the result (machines, auto-inserted junctions
\* and retained entities), their margin-expanded rectangles do not overlap,
\* unless the bounded free-position search was exhausted for one of them.
C13_NoOverlap ==
    PlanRan =>
      \A i, j \in 1..Len(entities) :
        (i # j /\ entities[i].free /\ entities[j].free)
          => ~intersects(PaddedRect(entities[i]), PaddedRect(entities[j]))

\* C13 among the entities the run placed itself (machines and junctions)
C13_PlacedByRun ==
    PlanRan =>
      \A i, j \in 1..Len(entities) :
        ( /\ i # j /\ entities[i].free /\ entities[j].free
          /\ \E k \in 1..i : entities[k].node # <<>>
          /\ \E k \in 1..j : entities[k].node # <<>> )
          => ~intersects(PaddedRect(entities[i]), PaddedRect(entities[j]))

\* C13 witness: a plan published on a board that retains a hand-placed
\* building, with machines and junctions, and no search exhausted.
C13_Witness ==
    /\ PlanRan
    /\ entities # <<>> /\ entities[1].node = <<>>
    /\ \E i \in 1..Len(entities) : entities[i].node # <<>>
    /\ \E i \in 2..Len(entities) : entities[i].type \in {"splitter", "merger"}
    /\ \A i \in 1..Len(entities) : entities[i].free

(***************************************************************************)
(* SpecFree: findFreePositionNear applied to an intended position, a       *)
(* building size and an obstacle list.  The obstacle lists are boards the  *)
(* program reaches: FreePool entities sit where handleBoardClick put them, *)
(* and Crowd(n) is the board after n clicks on one point, the first with   *)
(* the manufacturer selected and the rest with the splitter (each click    *)
(* goes through the same search).                                          *)
(***************************************************************************)
MaxCrowd == 26

\* the clicks of Crowd up to this one place manufacturers, the later ones
\* splitters
CrowdBig == 16

FreeGridSteps == {1, 8}

FreeSizes == { <<4, 4>>, <<8, 10>> }

\* intended positions; the second is off the grid of every step
FreeTargets == { <<M(40), M(40)>>, <<M(40) + 5, M(40) + 5>> }

\* the click target of Crowd
CrowdPoint == M(40)

\* addEntity of handleBoardClick with tool = "place"     (App.tsx:947-951)
clickPlace(ents, type, x, y, step) ==
    Append(ents,
           entityAt(maxId(ents) + 1, type,
                    findFreePositionNear(x, y, BUILDINGS[type].w, BUILDINGS[type].h,
                                         ents, step),
                    <<>>))

\* the board after the clicks Len(ents) + 1 .. n
RECURSIVE CrowdFrom(_, _, _)
CrowdFrom(ents, n, step) ==
    IF Len(ents) >= n THEN ents
    ELSE CrowdFrom(clickPlace(ents,
                              IF Len(ents) < CrowdBig THEN "manufacturer"
                                                      ELSE "splitter",
                              CrowdPoint, CrowdPoint, step),
                   n, step)

Crowd(n, step) == CrowdFrom(<<>>, n, step)

FreePool ==
    << entityAt(1, "splitter",    [x |-> M(40), y |-> M(40), free |-> TRUE], <<>>),
       entityAt(2, "constructor", [x |-> M(40), y |-> M(48), free |-> TRUE], <<>>),
       entityAt(3, "smelter",     [x |-> M(32), y |-> M(32), free |-> TRUE], <<>>),
       entityAt(4, "assembler",   [x |-> M(48), y |-> M(24), free |-> TRUE], <<>>),
       entityAt(5, "merger",      [x |-> M(24), y |-> M(40), free |-> TRUE], <<>>) >>

\* the sub-lists of FreePool, and the crowded board of each grid step
FreeBoards(step) ==
    { SelectSeq(FreePool, LAMBDA e : e.id \in S) : S \in SUBSET (1..Len(FreePool)) }
      \cup { Crowd(MaxCrowd, step) }

InitFree ==
    /\ recipes = RECIPES_DATA
    /\ UiIdle
    /\ probe = NoProbe

Search ==
    /\ probe = NoProbe
    /\ \E step \in FreeGridSteps, t \in FreeTargets, s \in FreeSizes :
         \E obs \in FreeBoards(step) :
           probe' = [fn |-> "findFreePositionNear",
                     x |-> t[1], y |-> t[2], w |-> s[1], h |-> s[2],
                     obs |-> obs, step |-> step,
                     pos |-> findFreePositionNear(t[1], t[2], s[1], s[2], obs, step)]
    /\ UNCHANGED recipes
    /\ UiUnchanged

NextFree == Search

SpecFree == InitFree /\ [][NextFree]_vars

Searched == probe.fn = "findFreePositionNear"

\* the probe order of the search, as offsets in units of the radius
ProbeOffsets ==
    << <<0, 1>>, <<0, -1>>, <<1, 0>>, <<-1, 0>>,
       <<1, 1>>, <<-1, 1>>, <<1, -1>>, <<-1, -1>> >>

\* the grid-snapped probe number c at radius r of the recorded search
ProbeAt(r, c) ==
    [x |-> snapToGrid(probe.x + ProbeOffsets[c][1] * M(r), probe.step),
     y |-> snapToGrid(probe.y + ProbeOffsets[c][2] * M(r), probe.step),
     w |-> M(probe.w), h |-> M(probe.h)]

\* the padding-expanded rectangle of the probe overlaps no obstacle
ProbeFree(r, c) ==
    \A i \in 1..Len(probe.obs) :
      ~intersects(expandRect(ProbeAt(r, c), ENTITY_PADDING_M),
                  rectOfEntity(probe.obs[i]))

ProbeBefore(r1, c1, r, c) == r1 < r \/ (r1 = r /\ c1 < c)

\* C14: findFreePositionNear scans the radii 0..40 and at each radius the
\* eight probes in the order (0,+r), (0,-r), (+r,0), (-r,0), (+r,+r),
\* (-r,+r), (+r,-r), (-r,-r); it returns the first grid-snapped probe whose
\* padding-expanded rectangle overlaps no obstacle, and the intended position
\* unchanged when every probe collides.
C14_FirstFreeProbe ==
    Searched =>
      IF \E r \in 0..40, c \in 1..8 : ProbeFree(r, c)
      THEN \E r \in 0..40, c \in 1..8 :
             /\ ProbeFree(r, c)
             /\ \A r1 \in 0..r, c1 \in 1..8 :
                  ProbeBefore(r1, c1, r, c) => ~ProbeFree(r1, c1)
             /\ probe.pos.x = ProbeAt(r, c).x
             /\ probe.pos.y = ProbeAt(r, c).y
      ELSE probe.pos.x = probe.x /\ probe.pos.y = probe.y

\* C14 witness: a search whose first free probe is neither in the first ring
\* nor the first probe of its ring.
C14_Witness ==
    /\ Searched
    /\ \E r \in 1..40, c \in 2..8 :
         /\ ProbeFree(r, c)
         /\ \A r1 \in 0..r, c1 \in 1..8 :
              ProbeBefore(r1, c1, r, c) => ~ProbeFree(r1, c1)
         /\ probe.pos.x = ProbeAt(r, c).x
         /\ probe.pos.y = ProbeAt(r, c).y

\* an exhausted search from a position off the grid: the result is the
\* intended position, not a probe
C14_Exhausted ==
    /\ Searched
    /\ \A r \in 0..40, c \in 1..8 : ~ProbeFree(r, c)
    /\ probe.pos.x # snapToGrid(probe.x, probe.step)
    /\ probe.pos = [x |-> probe.x, y |-> probe.y, free |-> FALSE]

\* the items of a bus list, in order
BusItems(bs) == [i \in 1..Len(bs) |-> bs[i].item]

\* the edge that the last turn of edges.forEach processed, and whether it
\* got as far as ensureBusY (App.tsx:1415)
LastEdge == PlanEdges[probe.k - 1]

LastEdgeResolved ==
    /\ ProducersOfEdgeIn(probe.prev, LastEdge) # <<>>
    /\ ConsumersOfEdgeIn(probe.prev, LastEdge) # <<>>

\* C15: bus uniqueness: within one planning run ensureBusY returns the same
\* coordinate every time it is called for the same item, even when the
\* obstacle list has grown between the calls (the entry an item has in the
\* bus map before an edge is the entry it has after it, and the edge's item
\* has an entry), and the bus map and the published bus list hold at most one
\* entry per item.
C15_BusUnique ==
    /\ Planning =>
         /\ Distinct(BusItems(probe.acc.busMap))
         /\ IsPrefix(probe.prev.busMap, probe.acc.busMap)
         /\ (probe.k > 1 /\ LastEdgeResolved) =>
              /\ Len(busOf(probe.acc.busMap, LastEdge.item)) = 1
              /\ busOf(probe.prev.busMap, LastEdge.item) # <<>> =>
                   busOf(probe.acc.busMap, LastEdge.item)
                     = busOf(probe.prev.busMap, LastEdge.item)
    /\ probe.fn = "planned" =>
         /\ Distinct(BusItems(buses))
         /\ buses = probe.acc.busMap

\* C15 witness: an edge has just been processed whose item already had a bus,
\* assigned when the obstacle list was shorter than it was at this edge.
C15_Witness ==
    /\ Planning
    /\ probe.k > 1
    /\ LastEdgeResolved
    /\ busOf(probe.prev.busMap, LastEdge.item) # <<>>
    /\ Len(probe.prev.obstacles) > Len(probe.combined)
    /\ Len(probe.acc.belts) > Len(probe.prev.belts)

\* the same, where a fresh scan over the grown obstacle list would have
\* chosen another coordinate than the memoised one
C15_MemoMatters ==
    /\ C15_Witness
    /\ ensureBusY(LastEdge.item, probe.prev.obstacles, probe.xRange, <<>>, gridStep)[1].y
         # busOf(probe.acc.busMap, LastEdge.item)[1].y

(***************************************************************************)
(* Routing (App.tsx:1078-1232, 1362-1391).  The search runs on a grid of   *)
(* PATH_GRID_M cells over a window around the two end points and the       *)
(* obstacles.  Path costs are multiples of 0.05; they are counted in       *)
(* twentieths of the cost of one step, so that the step costs 20 and the   *)
(* penalties 0.05 and 0.7 are 1 and 14.  A BeltSegment is {x, y, w, h};    *)
(* here x and y are on the centre line of the belt: the code's y of a      *)
(* horizontal segment and x of a vertical one are BELT_THICKNESS_M / 2     *)
(* less.                                                                    *)
(***************************************************************************)
\* PATH_GRID_M = 1 m                                            (App.tsx:870)
PATH_GRID_M == 10

\* BELT_THICKNESS_M = 0.3 m                                     (App.tsx:871)
BELT_THICKNESS_M == 3

\* CLEARANCE_M = 0.6 m                                          (App.tsx:872)
CLEARANCE_M == 6

\* START_END_FREE_RADIUS = 1 m                                  (App.tsx:873)
START_END_FREE_RADIUS == 10

\* `let stepCost = 1`                                          (App.tsx:1152)
STEP_COST == 20

\* WEST_PENALTY = 8                                             (App.tsx:877)
WEST_PENALTY == 160

\* TURN_PENALTY = 0.7                                           (App.tsx:878)
TURN_PENALTY == 14

\* VERT_PENALTY = 0.05                                          (App.tsx:879)
VERT_PENALTY == 1

\* the axis bias 0.7 of App.tsx:1159-1160
AXIS_BIAS == 14

\* the pull to the east 0.05 of the heuristic                 (App.tsx:1168)
EAST_PULL == 1

\* the margin 8 m of the search window                   (App.tsx:1096-1099)
WINDOW_MARGIN == 80

Sign(v) == IF v > 0 THEN 1 ELSE IF v < 0 THEN -1 ELSE 0

\* Math.ceil of v units, in whole metres
CeilM(v) == -FloorM(-v)

\* pointInRect (App.tsx:1079-1081)
pointInRect(px, py, r) ==
    px >= r.x /\ px <= r.x + r.w /\ py >= r.y /\ py <= r.y + r.h

\* `ens.map(rectOfEntity).map(r => expandRect(r, CLEARANCE_M))` (App.tsx:1092)
clearanceRects(ens) ==
    [i \in 1..Len(ens) |-> expandRect(rectOfEntity(ens[i]), CLEARANCE_M)]

\* xs and ys of App.tsx:1094-1095
windowXs(start, end, obstacles) ==
    {start.x, end.x} \cup { obstacles[i].x : i \in 1..Len(obstacles) }
                     \cup { obstacles[i].x + obstacles[i].w : i \in 1..Len(obstacles) }

windowYs(start, end, obstacles) ==
    {start.y, end.y} \cup { obstacles[i].y : i \in 1..Len(obstacles) }
                     \cup { obstacles[i].y + obstacles[i].h : i \in 1..Len(obstacles) }

\* the locals of routeDirectionalWithBias before the search (App.tsx:1092-1102)
windowFrom(start, end, obstacles, bias, xs, ys) ==
    [start |-> start, end |-> end, obstacles |-> obstacles, bias |-> bias,
     minX |-> FloorM(Min(xs) - WINDOW_MARGIN),
     minY |-> FloorM(Min(ys) - WINDOW_MARGIN),
     cols |-> Max({1, (CeilM(Max(xs) + WINDOW_MARGIN)
                        - FloorM(Min(xs) - WINDOW_MARGIN)) \div PATH_GRID_M}),
     rows |-> Max({1, (CeilM(Max(ys) + WINDOW_MARGIN)
                        - FloorM(Min(ys) - WINDOW_MARGIN)) \div PATH_GRID_M})]

windowOf(start, end, ens, bias) ==
    windowFrom(start, end, clearanceRects(ens), bias,
               windowXs(start, end, clearanceRects(ens)),
               windowYs(start, end, clearanceRects(ens)))

\* toGridX, toGridY, toWorldX, toWorldY (App.tsx:1104-1107)
toGridX(win, x) == RoundDiv(x - win.minX, PATH_GRID_M)
toGridY(win, y) == RoundDiv(y - win.minY, PATH_GRID_M)
toWorldX(win, gx) == win.minX + gx * PATH_GRID_M
toWorldY(win, gy) == win.minY + gy * PATH_GRID_M

\* the cell of a point; key(gx, gy) of App.tsx:1125 is the pair
cellOf(win, p) == <<toGridX(win, p.x), toGridY(win, p.y)>>

\* Math.hypot(cx - p.x, cy - p.y) <= START_END_FREE_RADIUS
withinFreeRadius(cx, cy, p) ==
    (cx - p.x) * (cx - p.x) + (cy - p.y) * (cy - p.y)
      <= START_END_FREE_RADIUS * START_END_FREE_RADIUS

\* collides without the two tests of the free radius (mutant)
collides_noFreeRadius(win, cx, cy) ==
    \E i \in 1..Len(win.obstacles) : pointInRect(cx, cy, win.obstacles[i])

\* collides (App.tsx:1112-1119)
collides(win, cx, cy) ==
    IF withinFreeRadius(cx, cy, win.start) THEN FALSE
    ELSE IF withinFreeRadius(cx, cy, win.end) THEN FALSE
    ELSE \E i \in 1..Len(win.obstacles) : pointInRect(cx, cy, win.obstacles[i])

\* inBounds (App.tsx:1131)
inBounds(win, gx, gy) == gx >= 0 /\ gx < win.cols /\ gy >= 0 /\ gy < win.rows

\* neigh (App.tsx:1140-1145): dx, dy, ndir
neigh == << <<1, 0, 0>>, <<-1, 0, 1>>, <<0, -1, 2>>, <<0, 1, 3>> >>

\* stepCost of a move in direction ndir from a node reached in direction
\* dir (App.tsx:1152-1160)
stepCost(bias, dir, ndir) ==
    STEP_COST
      + (IF ndir = 1 THEN WEST_PENALTY ELSE 0)
      + (IF ndir \in {2, 3} THEN VERT_PENALTY ELSE 0)
      + (IF ndir # dir THEN TURN_PENALTY ELSE 0)
      + (IF bias = "preferHorizontal" /\ ndir \in {2, 3} THEN AXIS_BIAS ELSE 0)
      + (IF bias = "preferVertical" /\ ndir \in {0, 1} THEN AXIS_BIAS ELSE 0)

\* h of App.tsx:1168 for the cell (ngx, ngy) and the goal cell e
heuristic(ngx, ngy, e) ==
    STEP_COST * (Abs(ngx - e[1]) + Abs(ngy - e[2])) + EAST_PULL * Max({0, e[1] - ngx})

\* App.tsx:1170-1174: the open list after the offer of a node
pushOpen(open, node) ==
    IF \E i \in 1..Len(open) :
         open[i].gx = node.gx /\ open[i].gy = node.gy /\ open[i].f <= node.f
    THEN open
    ELSE Append(SelectSeq(open, LAMBDA t : ~(t.gx = node.gx /\ t.gy = node.gy)), node)

\* App.tsx:1162-1175 without the test `tentative < gScore.get(nk)` (mutant)
relaxTo_always(win, st, k, n, ndir, tentative) ==
    [st EXCEPT
       !.came   = (n :> k) @@ @,
       !.gScore = (n :> tentative) @@ @,
       !.open   = pushOpen(@, [f |-> tentative
                                     + heuristic(n[1], n[2], cellOf(win, win.end)),
                               gx |-> n[1], gy |-> n[2], dir |-> ndir])]

\* App.tsx:1162-1175 for a passable neighbour n = <<ngx, ngy>> of the cell k
relaxTo(win, st, k, n, ndir, tentative) ==
    IF n \in DOMAIN st.gScore /\ st.gScore[n] <= tentative THEN st
    ELSE [st EXCEPT
            !.came   = (n :> k) @@ @,
            !.gScore = (n :> tentative) @@ @,
            !.open   = pushOpen(@, [f |-> tentative
                                          + heuristic(n[1], n[2], cellOf(win, win.end)),
                                    gx |-> n[1], gy |-> n[2], dir |-> ndir])]

\* one turn of `for (const [dx,dy,ndir] of neigh)`        (App.tsx:1146-1176)
relax(win, st, cur, d) ==
    IF \/ ~inBounds(win, cur.gx + d[1], cur.gy + d[2])
       \/ collides(win, toWorldX(win, cur.gx + d[1]), toWorldY(win, cur.gy + d[2]))
    THEN st
    ELSE relaxTo(win, st, <<cur.gx, cur.gy>>, <<cur.gx + d[1], cur.gy + d[2]>>, d[3],
                 st.gScore[<<cur.gx, cur.gy>>] + stepCost(win.bias, cur.dir, d[3]))

\* open.sort((a,b)=>a.f-b.f); open.shift(): the sort is stable and entries
\* are pushed at the end, so the entry taken is the first of least f in the
\* order of insertion
popIndex(open) ==
    CHOOSE i \in 1..Len(open) :
      /\ \A j \in 1..Len(open) : open[j].f >= open[i].f
      /\ \A j \in 1..(i - 1) : open[j].f > open[i].f

dropAt(seq, i) == SubSeq(seq, 1, i - 1) \o SubSeq(seq, i + 1, Len(seq))

\* the body of `while (open.length)` for the entry cur taken from the list
\* (App.tsx:1137-1176)
expand(win, st, cur) ==
    IF <<cur.gx, cur.gy>> = cellOf(win, win.end)
    THEN [st EXCEPT !.found = TRUE]
    ELSE relax(win, relax(win, relax(win, relax(win, st, cur, neigh[1]),
                                     cur, neigh[2]), cur, neigh[3]), cur, neigh[4])

\* one turn of `while (open.length)`                      (App.tsx:1134-1177)
searchStep(win, st) ==
    expand(win, [st EXCEPT !.open = dropAt(@, popIndex(st.open))],
           st.open[popIndex(st.open)])

\* the search state before the loop                       (App.tsx:1121-1133)
searchEntry(win) ==
    [open   |-> << [f |-> Abs(cellOf(win, win.start)[1] - cellOf(win, win.end)[1])
                          * STEP_COST
                        + Abs(cellOf(win, win.start)[2] - cellOf(win, win.end)[2])
                          * STEP_COST,
                    gx |-> cellOf(win, win.start)[1],
                    gy |-> cellOf(win, win.start)[2], dir |-> 0] >>,
     gScore |-> (cellOf(win, win.start) :> 0),
     came   |-> << >>,
     found  |-> FALSE]

\* routeManhattan (App.tsx:1221-1232)
midXOf(a, b) == RoundDiv(a.x + b.x, 2 * PATH_GRID_M) * PATH_GRID_M

routeManhattan(a, b) ==
    << [x |-> Min({a.x, midXOf(a, b)}), y |-> a.y,
        w |-> Abs(a.x - midXOf(a, b)), h |-> BELT_THICKNESS_M],
       [x |-> midXOf(a, b), y |-> Min({a.y, b.y}),
        w |-> BELT_THICKNESS_M, h |-> Abs(a.y - b.y)],
       [x |-> Min({midXOf(a, b), b.x}), y |-> b.y,
        w |-> Abs(midXOf(a, b) - b.x), h |-> BELT_THICKNESS_M] >>

\* the cells from the start cell (excluded) to the cell k, in world
\* coordinates (App.tsx:1182-1189, read backwards)
RECURSIVE cellsTo(_, _, _)
cellsTo(win, came, k) ==
    IF k = cellOf(win, win.start) THEN <<>>
    ELSE Append(cellsTo(win, came, came[k]),
                [x |-> toWorldX(win, k[1]), y |-> toWorldY(win, k[2])])

\* the inner while of App.tsx:1201-1206: the last index of the run from j
RECURSIVE runEnd(_, _, _, _)
runEnd(cells, j, dirX, dirY) ==
    IF /\ j + 1 <= Len(cells)
       /\ Sign(cells[j + 1].x - cells[j].x) = dirX
       /\ Sign(cells[j + 1].y - cells[j].y) = dirY
    THEN runEnd(cells, j + 1, dirX, dirY)
    ELSE j

\* the segment pushed at App.tsx:1208-1214 for the run from a to b
segmentOf(a, b, dirY) ==
    IF dirY = 0
    THEN [x |-> Min({a.x, b.x}), y |-> a.y, w |-> Abs(a.x - b.x), h |-> BELT_THICKNESS_M]
    ELSE [x |-> a.x, y |-> Min({a.y, b.y}), w |-> BELT_THICKNESS_M, h |-> Abs(a.y - b.y)]

\* the outer while of App.tsx:1196-1216 from index i
RECURSIVE compressFrom(_, _)
compressRun(cells, i, j) ==
    <<segmentOf(cells[i], cells[j], Sign(cells[i + 1].y - cells[i].y))>>
      \o compressFrom(cells, j)

compressFrom(cells, i) ==
    IF i >= Len(cells) THEN <<>>
    ELSE compressRun(cells, i,
                     runEnd(cells, i + 1, Sign(cells[i + 1].x - cells[i].x),
                            Sign(cells[i + 1].y - cells[i].y)))

\* routeDirectionalWithBias that returns no segment when the search fails
\* (mutant)
routeFound_noFallback(win, st) ==
    IF ~st.found THEN <<>>
    ELSE compressFrom(<<win.start>> \o cellsTo(win, st.came, cellOf(win, win.end)), 1)

\* routeDirectionalWithBias after the search             (App.tsx:1179-1217)
routeFound(win, st) ==
    IF ~st.found THEN routeManhattan(win.start, win.end)
    ELSE compressFrom(<<win.start>> \o cellsTo(win, st.came, cellOf(win, win.end)), 1)

\* Ports (App.tsx:1245-1274) ------------------------------------------------
inputSide(rot) ==
    CASE rot = 0 -> "left" [] rot = 90 -> "top" [] rot = 180 -> "right"
      [] rot = 270 -> "bottom"

outputSide(rot) ==
    CASE rot = 0 -> "right" [] rot = 90 -> "bottom" [] rot = 180 -> "left"
      [] rot = 270 -> "top"

\* portOnSide (App.tsx:1262-1268); (idx + 1) * (h / (count + 1)) is exact in
\* units of 0.1 m for the sizes and port counts of BUILDINGS
portOnSide(e, side, idx, count) ==
    IF side = "left"
      THEN [x |-> e.x, y |-> e.y + ((idx + 1) * M(e.h)) \div (count + 1)]
    ELSE IF side = "right"
      THEN [x |-> e.x + M(e.w), y |-> e.y + ((idx + 1) * M(e.h)) \div (count + 1)]
    ELSE IF side = "top"
      THEN [x |-> e.x + ((idx + 1) * M(e.w)) \div (count + 1), y |-> e.y]
    ELSE [x |-> e.x + ((idx + 1) * M(e.w)) \div (count + 1), y |-> e.y + M(e.h)]

inputPortOf(e, idx) ==
    portOnSide(e, inputSide(e.rotation), idx, Max({1, inputsCount(e)}))

outputPortOf(e, idx) ==
    portOnSide(e, outputSide(e.rotation), idx, Max({1, outputsCount(e)}))

\* routeViaBus (App.tsx:1362-1391) ------------------------------------------

\* the end points and the bias of leg 1, 2 or 3          (App.tsx:1373-1375)
legStart(start, end, busY, leg) ==
    IF leg = 1 THEN start
    ELSE IF leg = 2 THEN [x |-> start.x, y |-> busY]
    ELSE [x |-> end.x, y |-> busY]

legEnd(start, end, busY, leg) ==
    IF leg = 1 THEN [x |-> start.x, y |-> busY]
    ELSE IF leg = 2 THEN [x |-> end.x, y |-> busY]
    ELSE end

legBias(leg) == IF leg = 2 THEN "preferHorizontal" ELSE "preferVertical"

\* the body of the for loop of App.tsx:1379-1389 for one segment
mergeSegment(merged, seg) ==
    IF seg.w <= 0 /\ seg.h <= 0 THEN merged
    ELSE IF /\ merged # <<>>
            /\ merged[Len(merged)].h = BELT_THICKNESS_M /\ seg.h = BELT_THICKNESS_M
            /\ merged[Len(merged)].y = seg.y
            /\ merged[Len(merged)].x + merged[Len(merged)].w = seg.x
      THEN [merged EXCEPT ![Len(merged)].w = @ + seg.w]
    ELSE IF /\ merged # <<>>
            /\ merged[Len(merged)].w = BELT_THICKNESS_M /\ seg.w = BELT_THICKNESS_M
            /\ merged[Len(merged)].x = seg.x
            /\ merged[Len(merged)].y + merged[Len(merged)].h = seg.y
      THEN [merged EXCEPT ![Len(merged)].h = @ + seg.h]
    ELSE Append(merged, seg)

RECURSIVE mergeSegments(_, _, _)
mergeSegments(merged, segs, i) ==
    IF i > Len(segs) THEN merged
    ELSE mergeSegments(mergeSegment(merged, segs[i]), segs, i + 1)

(***************************************************************************)
(* SpecRoute: the router at work.  A call of routeDirectionalWithBias is a *)
(* sequence of steps, one per turn of its search loop; routeViaBus is      *)
(* three such calls and the push of the belt.  The calls of routeViaBus    *)
(* are those of planBeltsWithJunctions for the links of the plans of       *)
(* RouteTargets on an empty board; the direct calls of                     *)
(* routeDirectionalWithBias join the ports of two buildings of             *)
(* RoutePairs, with no obstacle or with the two buildings as obstacles.    *)
(***************************************************************************)
RouteTargets == { <<"Plate", Num(15)>>, <<"Plate", Num(30)>>, <<"Rod", Num(30)>> }

\* a producer, a consumer and the input slot of the consumer
RoutePairs ==
    { [prod |-> entityAt(1, "smelter",     [x |-> M(8),  y |-> M(8),  free |-> TRUE], <<>>),
       cons |-> entityAt(2, "constructor", [x |-> M(24), y |-> M(8),  free |-> TRUE], <<>>),
       slot |-> 0],
      [prod |-> entityAt(1, "constructor", [x |-> M(8),  y |-> M(8),  free |-> TRUE], <<>>),
       cons |-> entityAt(2, "assembler",   [x |-> M(30), y |-> M(20), free |-> TRUE], <<>>),
       slot |-> 1],
      [prod |-> entityAt(1, "constructor", [x |-> M(30), y |-> M(8),  free |-> TRUE], <<>>),
       cons |-> entityAt(2, "smelter",     [x |-> M(8),  y |-> M(30), free |-> TRUE], <<>>),
       slot |-> 0] }

AxisBias == {"none", "preferHorizontal", "preferVertical"}

InitRoute ==
    /\ recipes = RECIPES_DATA
    /\ gridStep = 1
    /\ tool = "select"
    /\ palette = "constructor"
    /\ \E t \in RouteTargets : targetItem = t[1] /\ targetRate = t[2]
    /\ preferAlt = FALSE
    /\ entities = <<>>
    /\ belts = <<>>
    /\ buses = <<>>
    /\ lastOp = NoOp
    /\ steps = 0
    /\ probe = NoProbe

\* the machines runPlanner lays out on the empty board   (App.tsx:1571-1573)
RouteLayout == autoLayout(PlanRoot, M(8), M(8), gridStep, 0)

\* the state of planBeltsWithJunctions after its first k edges
RouteAcc(k) ==
    planEdges(planEntry(RouteLayout).acc, SubSeq(PlanEdges, 1, k), 1,
              planEntry(RouteLayout).xRange, gridStep)

entityIn(ens, id) == CHOOSE e \in { ens[i] : i \in 1..Len(ens) } : e.id = id

\* the entry of routeDirectionalWithBias                 (App.tsx:1092-1133)
routeEntry(call, start, end, ens, bias) ==
    [fn |-> "routeDirectionalWithBias", call |-> call,
     win |-> windowOf(start, end, ens, bias),
     st  |-> searchEntry(windowOf(start, end, ens, bias))]

\* the entry of leg number leg of a routeViaBus call
legEntry(call, leg) ==
    routeEntry([call EXCEPT !.leg = leg],
               legStart(call.start, call.end, call.busY, leg),
               legEnd(call.start, call.end, call.busY, leg),
               call.obs, legBias(leg))

\* a direct call of routeDirectionalWithBias
CallRoute ==
    /\ probe = NoProbe
    /\ \E pair \in RoutePairs, bias \in AxisBias, withObs \in BOOLEAN :
         probe' = routeEntry([via |-> "direct",
                              start |-> outputPortOf(pair.prod, 0),
                              end   |-> inputPortOf(pair.cons, pair.slot),
                              obs   |-> IF withObs THEN <<pair.prod, pair.cons>>
                                                   ELSE <<>>],
                             outputPortOf(pair.prod, 0),
                             inputPortOf(pair.cons, pair.slot),
                             IF withObs THEN <<pair.prod, pair.cons>> ELSE <<>>,
                             bias)
    /\ UNCHANGED recipes
    /\ UiUnchanged

\* routeViaBus called for link (the belt being pushed) when the planner
\* state is acc                        (App.tsx:1371 and the calls 1441-1558)
viaBusCall(acc, link) ==
    [via   |-> "bus",
     link  |-> link,
     start |-> outputPortOf(entityIn(acc.obstacles, link.src.id), link.src.idx),
     end   |-> inputPortOf(entityIn(acc.obstacles, link.dst.id), link.dst.idx),
     obs   |-> acc.obstacles,
     busY  |-> busOf(acc.busMap, link.item)[1].y,
     leg   |-> 1,
     legs  |-> <<>>]

\* the edge is planned by one of the cases in which every junction is
\* placed before the first link is routed (direct, split, merge)
NotMesh(acc, e) ==
    Len(ProducersOfEdgeIn(acc, e)) = 1 \/ Len(ConsumersOfEdgeIn(acc, e)) = 1

CallRouteViaBus ==
    /\ probe = NoProbe
    /\ \E k \in 1..Len(PlanEdges) :
         /\ NotMesh(RouteAcc(k - 1), PlanEdges[k])
         /\ \E b \in (Len(RouteAcc(k - 1).belts) + 1)..Len(RouteAcc(k).belts) :
              probe' = legEntry(viaBusCall(RouteAcc(k), RouteAcc(k).belts[b]), 1)
    /\ UNCHANGED recipes
    /\ UiUnchanged

Routing == probe.fn = "routeDirectionalWithBias"

SearchOver == probe.st.open = <<>> \/ probe.st.found

\* one turn of `while (open.length)`                      (App.tsx:1134-1177)
SearchStep ==
    /\ Routing
    /\ ~SearchOver
    /\ probe' = [probe EXCEPT !.st = searchStep(probe.win, probe.st)]
    /\ UNCHANGED recipes
    /\ UiUnchanged

\* the return of a direct call                            (App.tsx:1179-1217)
RouteReturn ==
    /\ Routing
    /\ SearchOver
    /\ probe.call.via = "direct"
    /\ probe' = [fn |-> "routed", call |-> probe.call, found |-> probe.st.found,
                 segments |-> routeFound(probe.win, probe.st)]
    /\ UNCHANGED recipes
    /\ UiUnchanged

\* the return of leg 1 or 2 and the entry of the next leg
LegReturn ==
    /\ Routing
    /\ SearchOver
    /\ probe.call.via = "bus"
    /\ probe.call.leg < 3
    /\ probe' = legEntry([probe.call EXCEPT
                            !.legs = Append(@, [found |-> probe.st.found,
                                                segments |-> routeFound(probe.win,
                                                                        probe.st)])],
                         probe.call.leg + 1)
    /\ UNCHANGED recipes
    /\ UiUnchanged

\* the return of leg 3, the merge of App.tsx:1377-1390 and belts.push
ViaBusReturn ==
    /\ Routing
    /\ SearchOver
    /\ probe.call.via = "bus"
    /\ probe.call.leg = 3
    /\ probe' = [fn |-> "routedViaBus",
                 call |-> [probe.call EXCEPT
                             !.legs = Append(@, [found |-> probe.st.found,
                                                 segments |-> routeFound(probe.win,
                                                                         probe.st)])],
                 pushed |-> [link |-> probe.call.link,
                             segments |->
                               mergeSegments(<<>>,
                                 probe.call.legs[1].segments
                                   \o probe.call.legs[2].segments
                                   \o routeFound(probe.win, probe.st), 1)]]
    /\ UNCHANGED recipes
    /\ UiUnchanged

NextRoute ==
    \/ CallRoute
    \/ CallRouteViaBus
    \/ SearchStep
    \/ RouteReturn
    \/ LegReturn
    \/ ViaBusReturn

SpecRoute == InitRoute /\ [][NextRoute]_vars

\* the length of a polyline: the extent of each segment along its axis
RECURSIVE PathLength(_)
PathLength(segs) ==
    IF segs = <<>> THEN 0
    ELSE (IF segs[1].h = BELT_THICKNESS_M THEN segs[1].w ELSE segs[1].h)
         + PathLength(Tail(segs))

Manhattan(a, b) == Abs(a.x - b.x) + Abs(a.y - b.y)

OnPathGrid(p) == p.x % PATH_GRID_M = 0 /\ p.y % PATH_GRID_M = 0

Routed == probe.fn = "routed"

RoutedViaBus == probe.fn = "routedViaBus"

\* C16: routing between two ports with no obstacles between them returns a
\* polyline of no more than 3 segments whose total length equals the
\* Manhattan distance between the two ports.
C16_ShortestRoute ==
    (Routed /\ probe.call.obs = <<>>) =>
      /\ Len(probe.segments) <= 3
      /\ PathLength(probe.segments) = Manhattan(probe.call.start, probe.call.end)

\* C16 for two ports that lie on the grid of the search
C16_OnGrid ==
    (Routed /\ probe.call.obs = <<>>
       /\ OnPathGrid(probe.call.start) /\ OnPathGrid(probe.call.end)) =>
      /\ Len(probe.segments) <= 3
      /\ PathLength(probe.segments) = Manhattan(probe.call.start, probe.call.end)

\* C16 witness: a route found between the output port of a smelter, half a
\* metre off the grid, and the input port of a constructor, with no obstacle.
C16_Witness ==
    /\ Routed
    /\ probe.call.obs = <<>>
    /\ probe.found
    /\ ~OnPathGrid(probe.call.start)
    /\ probe.segments # <<>>

\* a link of a plan whose two ports are one metre apart with nothing between
\* them, routed over the bus
C16_ShortLink ==
    /\ RoutedViaBus
    /\ Manhattan(probe.call.start, probe.call.end) = PATH_GRID_M
    /\ Len(probe.pushed.segments) > 3
    /\ PathLength(probe.pushed.segments) > Manhattan(probe.call.start, probe.call.end)

\* the three segments of the fallback between a and b: horizontal from a to
\* the grid-rounded midpoint x, vertical between the two y, horizontal to b
IsFallback(segs, a, b) ==
    /\ Len(segs) = 3
    /\ \E midX \in { m * PATH_GRID_M : m \in -100..100 } :
         /\ 2 * midX - PATH_GRID_M <= a.x + b.x
         /\ a.x + b.x < 2 * midX + PATH_GRID_M
         /\ segs[1].h = BELT_THICKNESS_M /\ segs[1].y = a.y
         /\ {segs[1].x, segs[1].x + segs[1].w} = {a.x, midX}
         /\ segs[2].w = BELT_THICKNESS_M /\ segs[2].x = midX
         /\ {segs[2].y, segs[2].y + segs[2].h} = {a.y, b.y}
         /\ segs[3].h = BELT_THICKNESS_M /\ segs[3].y = b.y
         /\ {segs[3].x, segs[3].x + segs[3].w} = {midX, b.x}

\* the results of the legs of a routeViaBus call that have returned
CallLegs == probe.call.legs

\* C18: when the grid search ends without reaching the goal cell, the route
\* does not fail: it returns the fallback of exactly three segments,
\* horizontal from the start to the grid-rounded midpoint x, vertical
\* between the two port y values, horizontal to the end, whatever the
\* obstacles, and the planning run still pushes a link for that connection
\* (the link pushed is the one being routed and its polyline has the length
\* of its three legs, the fallback included).
C18_Fallback ==
    /\ (Routed /\ ~probe.found) =>
         IsFallback(probe.segments, probe.call.start, probe.call.end)
    /\ ((Routing \/ RoutedViaBus) /\ probe.call.via = "bus") =>
         \A leg \in 1..Len(CallLegs) :
           ~CallLegs[leg].found =>
             IsFallback(CallLegs[leg].segments,
                        legStart(probe.call.start, probe.call.end, probe.call.busY, leg),
                        legEnd(probe.call.start, probe.call.end, probe.call.busY, leg))
    /\ RoutedViaBus =>
         /\ Len(CallLegs) = 3
         /\ probe.pushed.link = probe.call.link
         /\ PathLength(probe.pushed.segments)
              = PathLength(CallLegs[1].segments) + PathLength(CallLegs[2].segments)
                  + PathLength(CallLegs[3].segments)

\* C18 witness: a link of a plan pushed with a leg whose search ended without
\* reaching its goal, the leg crossing an obstacle.
C18_Witness ==
    /\ RoutedViaBus
    /\ \E leg \in 1..3 :
         /\ ~CallLegs[leg].found
         /\ \E i \in 1..Len(probe.call.obs) :
              pointInRect(CallLegs[leg].segments[2].x,
                          CallLegs[leg].segments[2].y + PATH_GRID_M * 2,
                          rectOfEntity(probe.call.obs[i]))
    /\ probe.pushed.segments # <<>>

(***************************************************************************)
(* SpecEdges: collectEdges applied to the tree buildChain gives for every  *)
(* request over the datasets of SpecChain.                                 *)
(***************************************************************************)
InitEdges ==
    /\ recipes \in ChainDatasets
    /\ probe = NoProbe
    /\ UiIdle

CollectEdges ==
    /\ probe = NoProbe
    /\ \E productName \in ItemNames, rate \in ChainRates, preferAltLocal \in BOOLEAN :
         /\ buildChain(recipes, productName, rate, preferAltLocal) # <<>>
         /\ probe' = [fn |-> "collectEdges",
                      root |-> buildChain(recipes, productName, rate, preferAltLocal)[1],
                      edges |-> collectEdges(buildChain(recipes, productName, rate,
                                                        preferAltLocal)[1])]
    /\ UNCHANGED recipes
    /\ UiUnchanged

NextEdges == CollectEdges

SpecEdges == InitEdges /\ [][NextEdges]_vars

Collected == probe.fn = "collectEdges"

\* the nodes of the tree of the recorded call, as a set
TreeNodes == { nodesOf(probe.root)[k] : k \in 1..Len(nodesOf(probe.root)) }

\* the positions of the recorded edge list that hold an edge into slot i
\* (1-based) of node n
EdgesInto(n, i) ==
    { k \in 1..Len(probe.edges) :
        probe.edges[k].to = n /\ probe.edges[k].inputIndex = i - 1 }

\* C17: collectEdges(root) emits exactly one edge for every input slot,
\* anywhere in the tree, that has a child node, and none for childless slots;
\* each edge has the child as producer, the owning node as consumer, that
\* slot's index and that slot's rate (and item), and an edge is emitted before
\* every edge of its producer's subtree (pre-order).
C17_Edges ==
    Collected =>
      /\ \A n \in TreeNodes : \A i \in 1..Len(n.inputs) :
           Cardinality(EdgesInto(n, i)) = IF n.inputs[i].from # <<>> THEN 1 ELSE 0
      /\ \A k \in 1..Len(probe.edges) :
           /\ probe.edges[k].to \in TreeNodes
           /\ probe.edges[k].inputIndex + 1 \in 1..Len(probe.edges[k].to.inputs)
           /\ <<probe.edges[k].from>>
                = probe.edges[k].to.inputs[probe.edges[k].inputIndex + 1].from
           /\ probe.edges[k].rate
                = probe.edges[k].to.inputs[probe.edges[k].inputIndex + 1].rate
           /\ probe.edges[k].item
                = probe.edges[k].to.inputs[probe.edges[k].inputIndex + 1].name
      /\ \A k, m \in 1..Len(probe.edges) :
           IsPrefix(probe.edges[k].from.id, probe.edges[m].to.id) => k < m

\* C17 witness: a tree with a childless slot, a node with two child slots
\* and a child that has a child of its own.
C17_Witness ==
    /\ Collected
    /\ Len(probe.edges) >= 3
    /\ \E n \in TreeNodes : \E i \in 1..Len(n.inputs) : n.inputs[i].from = <<>>
    /\ Cardinality(EdgesInto(probe.root, 1) \cup EdgesInto(probe.root, 2)) = 2
    /\ \E k, m \in 1..Len(probe.edges) : probe.edges[m].to = probe.edges[k].from

(***************************************************************************)
(* SpecLinks: planBeltsWithJunctions, one edge at a time as in SpecPlan,   *)
(* over a dataset of fast recipes: the plan of Kit at 100/min has a direct *)
(* edge, a fan-out, fan-ins and a many-to-many edge, and links of the      *)
(* first four belt tiers.                                                  *)
(***************************************************************************)
LINK_DATA ==
    << Recipe("kit",    "Kit",    100, <<Ing("Cable", 200), Ing("Bar", 100)>>,
              "assembler", FALSE),
       Recipe("cable",  "Cable",  200, <<Ing("Wire", 400)>>,   "constructor", FALSE),
       Recipe("wire",   "Wire",   200, <<Ing("Copper", 100)>>, "constructor", FALSE),
       Recipe("bar",    "Bar",    50,  <<Ing("Slab", 100)>>,   "smelter",     FALSE),
       Recipe("slab",   "Slab",   100, <<Ing("Gravel", 100)>>, "constructor", FALSE),
       Recipe("gravel", "Gravel", 200, <<Ing("Stone", 100)>>,  "smelter",     FALSE) >>

LinkRates == { Num(50), Num(100) }

InitLinks ==
    /\ recipes = LINK_DATA
    /\ tool = "select"
    /\ palette = "constructor"
    /\ gridStep \in PlanGridSteps
    /\ targetItem \in { LINK_DATA[i].product.name : i \in 1..Len(LINK_DATA) }
    /\ targetRate \in LinkRates
    /\ preferAlt = FALSE
    /\ entities \in PlanBoards
    /\ belts = <<>>
    /\ buses = <<>>
    /\ lastOp = NoOp
    /\ steps = 0
    /\ probe = NoProbe

SpecLinks == InitLinks /\ [][NextPlan]_vars

Planned == probe.fn = "planned"

\* the links pushed by the last turn of edges.forEach
LastLinks == (Len(probe.prev.belts) + 1)..Len(probe.acc.belts)

\* C19: every transport link of a planning result, in all four junction
\* cases (direct, fan-out, fan-in, many-to-many), carries the item of the edge
\* it was created for and has the tier minBeltMkFor gives for its own rate.
C19_LinkTier ==
    /\ (Planning /\ probe.k > 1) =>
         /\ IsPrefix(probe.prev.belts, probe.acc.belts)
         /\ \A b \in LastLinks : probe.acc.belts[b].item = LastEdge.item
    /\ (Planning \/ Planned) =>
         \A b \in 1..Len(probe.acc.belts) :
           probe.acc.belts[b].mk = minBeltMkFor(probe.acc.belts[b].rate)
    /\ Planned => belts = probe.acc.belts

\* the numbers of producers and consumers of an edge among the published
\* entities
EdgeShape(e) ==
    <<Len(entitiesForNode(entities, e.from)), Len(entitiesForNode(entities, e.to))>>

\* C19 witness: a published plan with a direct edge, a fan-out, a fan-in and
\* a many-to-many edge, whose links are of four different tiers.
C19_Witness ==
    /\ Planned
    /\ \E e \in { PlanEdges[k] : k \in 1..Len(PlanEdges) } : EdgeShape(e) = <<1, 1>>
    /\ \E e \in { PlanEdges[k] : k \in 1..Len(PlanEdges) } :
         EdgeShape(e)[1] = 1 /\ EdgeShape(e)[2] > 1
    /\ \E e \in { PlanEdges[k] : k \in 1..Len(PlanEdges) } :
         EdgeShape(e)[1] > 1 /\ EdgeShape(e)[2] = 1
    /\ \E e \in { PlanEdges[k] : k \in 1..Len(PlanEdges) } :
         EdgeShape(e)[1] > 1 /\ EdgeShape(e)[2] > 1
    /\ { belts[b].mk : b \in 1..Len(belts) } = {1, 2, 3, 4}

\* the entities of a list that instantiate the node n: their back-reference
\* meta.node is n
InstancesOf(ens, n) ==
    SelectSeq(ens, LAMBDA e : e.node # <<>> /\ e.node[1].id = n.id)

\* C20: for each edge the planner resolves as producers exactly the placed
\* entities that instantiate the edge's producer node and as consumers
\* exactly those that instantiate its consumer node; entities instantiating
\* another node of the tree (for instance one that uses the same recipe) and
\* entities without a back-reference are never included.
C20_ResolvedByNode ==
    (Planning /\ probe.k > 1) =>
      /\ ProducersOfEdgeIn(probe.prev, LastEdge)
           = InstancesOf(probe.prev.obstacles, LastEdge.from)
      /\ ConsumersOfEdgeIn(probe.prev, LastEdge)
           = InstancesOf(probe.prev.obstacles, LastEdge.to)

\* what holds instead: the entities resolved are those whose back-reference
\* names the recipe of the node; none lacks a back-reference
C20_ResolvedByRecipe ==
    (Planning /\ probe.k > 1) =>
      /\ \A i \in 1..Len(probe.prev.obstacles) :
           (\E j \in 1..Len(ProducersOfEdgeIn(probe.prev, LastEdge)) :
              ProducersOfEdgeIn(probe.prev, LastEdge)[j] = probe.prev.obstacles[i])
             <=> /\ probe.prev.obstacles[i].node # <<>>
                 /\ probe.prev.obstacles[i].node[1].recipeId = LastEdge.from.recipeId
      /\ \A i \in 1..Len(probe.prev.obstacles) :
           (\E j \in 1..Len(ConsumersOfEdgeIn(probe.prev, LastEdge)) :
              ConsumersOfEdgeIn(probe.prev, LastEdge)[j] = probe.prev.obstacles[i])
             <=> /\ probe.prev.obstacles[i].node # <<>>
                 /\ probe.prev.obstacles[i].node[1].recipeId = LastEdge.to.recipeId

\* C20 for the plans in which no two nodes use one recipe
C20_DistinctRecipes ==
    (Planning /\ probe.k > 1
       /\ \A a, b \in 1..Len(nodesOf(PlanRoot)) :
            nodesOf(PlanRoot)[a].recipeId = nodesOf(PlanRoot)[b].recipeId => a = b) =>
      /\ ProducersOfEdgeIn(probe.prev, LastEdge)
           = InstancesOf(probe.prev.obstacles, LastEdge.from)
      /\ ConsumersOfEdgeIn(probe.prev, LastEdge)
           = InstancesOf(probe.prev.obstacles, LastEdge.to)

\* C20 witness: an edge has been planned on a board with a hand-placed
\* building, in a tree where another node uses the recipe of the edge's
\* producer.
C20_Witness ==
    /\ Planning
    /\ probe.k > 1
    /\ LastEdgeResolved
    /\ \E i \in 1..Len(probe.prev.obstacles) : probe.prev.obstacles[i].node = <<>>
    /\ \E a \in 1..Len(nodesOf(PlanRoot)) :
         /\ nodesOf(PlanRoot)[a].recipeId = LastEdge.from.recipeId
         /\ nodesOf(PlanRoot)[a].id # LastEdge.from.id

(***************************************************************************)
(* SpecLayout: autoLayout run one loop turn at a time on the demand tree   *)
(* of a request, as runPlanner calls it on an empty board                  *)
(* (autoLayout(root, 8, 8), App.tsx:1572).  probe holds its locals: d is   *)
(* the depth of the layer in hand (layers.slice().reverse() goes from the  *)
(* last depth to 0), k the index of the node in hand in that layer, placed *)
(* the counter of the while loop, x and yBase the two running coordinates  *)
(* and obstacles the list that is also returned as placements.             *)
(***************************************************************************)
LayoutRates == { Num(15), Num(50), Num(75) }

LayoutGridSteps == {1, 8}

InitLayout ==
    /\ recipes = RECIPES_DATA
    /\ tool = "select"
    /\ palette = "constructor"
    /\ gridStep \in LayoutGridSteps
    /\ targetItem \in { RECIPES_DATA[i].product.name : i \in 1..Len(RECIPES_DATA) }
    /\ targetRate \in LayoutRates
    /\ preferAlt \in BOOLEAN
    /\ entities = <<>>
    /\ belts = <<>>
    /\ buses = <<>>
    /\ lastOp = NoOp
    /\ steps = 0
    /\ probe = NoProbe

\* `let x = originX` carried over from the layer before (mutant)
layerStart_keepsX(st, d, originX) ==
    [st EXCEPT !.d = d, !.k = 1, !.placed = 0]

\* the start of one turn of layers.slice().reverse().forEach
\* (App.tsx:1042-1043): `let x = originX`
layerStart(st, d, originX) ==
    [st EXCEPT !.d = d, !.k = 1, !.placed = 0, !.x = originX]

\* the locals of autoLayout when the first layer starts (App.tsx:1037-1043)
layoutEntry(root, originX, originY) ==
    layerStart([fn |-> "autoLayout", d |-> 0, k |-> 1, placed |-> 0,
                x |-> originX, yBase |-> originY, obstacles |-> <<>>],
               lastDepth(root), originX)

LayingOut == probe.fn = "autoLayout"

LayoutLayer == layerAt(PlanRoot, probe.d)

\* runPlanner up to the call of autoLayout (App.tsx:1566-1572)
CallLayout ==
    /\ probe = NoProbe
    /\ targetItem # ""
    /\ buildChain(recipes, targetItem, targetRate, preferAlt) # <<>>
    /\ probe' = layoutEntry(PlanRoot, M(8), M(8))
    /\ UNCHANGED <<recipes>>
    /\ UiUnchanged

\* one turn of the while loop (App.tsx:1050-1069)
PlaceMachine ==
    /\ LayingOut
    /\ probe.d >= 0
    /\ probe.k <= Len(LayoutLayer)
    /\ probe.placed < machineCount(LayoutLayer[probe.k])
    /\ probe' = [probe EXCEPT
                   !.placed = @ + 1,
                   !.obstacles = placeOne(LayoutLayer[probe.k], probe.placed,
                                          probe.x, probe.yBase, probe.obstacles,
                                          gridStep, 0)]
    /\ UNCHANGED <<recipes>>
    /\ UiUnchanged

\* the end of one turn of nodes.forEach (App.tsx:1070-1071)
EndNode ==
    /\ LayingOut
    /\ probe.d >= 0
    /\ probe.k <= Len(LayoutLayer)
    /\ ~(probe.placed < machineCount(LayoutLayer[probe.k]))
    /\ probe' = [probe EXCEPT
                   !.k = @ + 1,
                   !.placed = 0,
                   !.x = @ + perRowOf(BUILDINGS[LayoutLayer[probe.k].building])
                               * M(BUILDINGS[LayoutLayer[probe.k].building].w + 2)
                           + M(12)]
    /\ UNCHANGED <<recipes>>
    /\ UiUnchanged

\* the end of one turn of the forEach over the layers (App.tsx:1073) and the
\* start of the next
EndLayer ==
    /\ LayingOut
    /\ probe.d >= 0
    /\ probe.k > Len(LayoutLayer)
    /\ probe' = layerStart([probe EXCEPT !.yBase = @ + M(12)], probe.d - 1, M(8))
    /\ UNCHANGED <<recipes>>
    /\ UiUnchanged

\* `return placements` (App.tsx:1075)
ReturnLayout ==
    /\ LayingOut
    /\ probe.d < 0
    /\ probe' = [probe EXCEPT !.fn = "placements"]
    /\ UNCHANGED <<recipes>>
    /\ UiUnchanged

NextLayout ==
    \/ CallLayout
    \/ PlaceMachine
    \/ EndNode
    \/ EndLayer
    \/ ReturnLayout

SpecLayout == InitLayout /\ [][NextLayout]_vars

LaidOut == probe.fn = "placements"

\* the steps return what autoLayout returns
LayoutStepsAgree ==
    LaidOut => probe.obstacles = autoLayout(PlanRoot, M(8), M(8), gridStep, 0)

\* the depth of a node: the layer traverse puts it in
DepthOf(n) == Len(n.id)

\* the entities of a list whose back-reference meta.node is the node n
CountFor(ens, n) ==
    Cardinality({ i \in 1..Len(ens) : ens[i].node = <<nodeRef(n)>> })

RECURSIVE SumCeil(_, _)
SumCeil(nodes, k) ==
    IF k > Len(nodes) THEN 0
    ELSE RatCeil(nodes[k].machines) + SumCeil(nodes, k + 1)

\* C21: autoLayout assigns every node of the tree to exactly one layer and
\* places for it exactly ceil(machines) machine entities whose
\* back-reference is that node, so the number of entities returned is the
\* sum of ceil(machines) over the nodes of the tree.
C21_MachinesPlaced ==
    LaidOut =>
      /\ \A a \in 1..Len(nodesOf(PlanRoot)) :
           /\ Cardinality({ d \in 0..lastDepth(PlanRoot) :
                              \E j \in 1..Len(layerAt(PlanRoot, d)) :
                                layerAt(PlanRoot, d)[j].id = nodesOf(PlanRoot)[a].id })
                = 1
           /\ CountFor(probe.obstacles, nodesOf(PlanRoot)[a])
                = RatCeil(nodesOf(PlanRoot)[a].machines)
      /\ \A i \in 1..Len(probe.obstacles) :
           /\ probe.obstacles[i].node # <<>>
           /\ \E a \in 1..Len(nodesOf(PlanRoot)) :
                /\ probe.obstacles[i].node = <<nodeRef(nodesOf(PlanRoot)[a])>>
                /\ probe.obstacles[i].type = nodesOf(PlanRoot)[a].building
      /\ Len(probe.obstacles) = SumCeil(nodesOf(PlanRoot), 1)

\* C21 witness: a layout returned for a tree of several nodes in which one
\* node needs a fractional number of machines above 1 and another an integer
\* number.
C21_Witness ==
    /\ LaidOut
    /\ Len(nodesOf(PlanRoot)) >= 3
    /\ \E a \in 1..Len(nodesOf(PlanRoot)) :
         /\ nodesOf(PlanRoot)[a].machines.den > 1
         /\ RatLt(Num(1), nodesOf(PlanRoot)[a].machines)
         /\ CountFor(probe.obstacles, nodesOf(PlanRoot)[a]) >= 2
    /\ \E a \in 1..Len(nodesOf(PlanRoot)) :
         /\ nodesOf(PlanRoot)[a].machines.den = 1
         /\ CountFor(probe.obstacles, nodesOf(PlanRoot)[a]) >= 1

\* the along-layer coordinate after the nodes 1..k-1 of a layer
RECURSIVE AlongLayer(_, _, _)
AlongLayer(nodes, k, originX) ==
    IF k <= 1 THEN originX
    ELSE AlongLayer(nodes, k - 1, originX)
           + perRowOf(BUILDINGS[nodes[k - 1].building])
               * M(BUILDINGS[nodes[k - 1].building].w + 2)
           + M(12)

\* C22: autoLayout processes the layers deepest first: every instance of a
\* node at depth d+1 is placed and on the obstacle list before any instance
\* of a node at depth d; the along-layer coordinate is reset to the origin
\* at the start of each layer and the layer base coordinate grows by one
\* fixed step per layer, so the root's layer has the largest base coordinate
\* and the deepest layer starts at the origin.
C22_DeepestFirst ==
    (LayingOut /\ probe.d >= 0) =>
      /\ \A a \in 1..Len(nodesOf(PlanRoot)) :
           /\ DepthOf(nodesOf(PlanRoot)[a]) > probe.d
                => CountFor(probe.obstacles, nodesOf(PlanRoot)[a])
                     = machineCount(nodesOf(PlanRoot)[a])
           /\ DepthOf(nodesOf(PlanRoot)[a]) < probe.d
                => CountFor(probe.obstacles, nodesOf(PlanRoot)[a]) = 0
      /\ \A i, j \in 1..Len(probe.obstacles) :
           i < j => Len(probe.obstacles[i].node[1].id) >= Len(probe.obstacles[j].node[1].id)
      /\ probe.yBase = M(8) + M(12) * (lastDepth(PlanRoot) - probe.d)
      /\ probe.x = AlongLayer(LayoutLayer, probe.k, M(8))
      /\ probe.d = lastDepth(PlanRoot) => probe.yBase = M(8)
      /\ \A i, j \in 1..Len(probe.obstacles) :
           (i < j /\ probe.obstacles[i].free /\ probe.obstacles[j].free)
             => ~intersects(PaddedRect(probe.obstacles[i]),
                            PaddedRect(probe.obstacles[j]))

\* C22 witness: the root's layer is in hand in a tree three layers deep, the
\* machines of the two deeper layers are on the obstacle list and the first
\* machine of the root is being placed at the origin of the along-layer
\* coordinate.
C22_Witness ==
    /\ LayingOut
    /\ probe.d = 0
    /\ lastDepth(PlanRoot) >= 2
    /\ probe.k = 1 /\ probe.placed = 0 /\ probe.x = M(8)
    /\ probe.yBase = M(8) + M(12) * lastDepth(PlanRoot)
    /\ \E i, j \in 1..Len(probe.obstacles) :
         /\ i < j
         /\ Len(probe.obstacles[i].node[1].id) > Len(probe.obstacles[j].node[1].id)

(***************************************************************************)
(* The cells of a search.  A cell is <<gx, gy>>; the cells the search has  *)
(* reached are the keys of gScore, and a reached cell with no entry on the *)
(* open list has been taken from it and its four neighbours offered.       *)
(***************************************************************************)
\* the cell lies in the clearance rectangle of some obstacle
InClearance(win, c) ==
    \E i \in 1..Len(win.obstacles) :
      /\ toWorldX(win, c[1]) >= win.obstacles[i].x
      /\ toWorldX(win, c[1]) <= win.obstacles[i].x + win.obstacles[i].w
      /\ toWorldY(win, c[2]) >= win.obstacles[i].y
      /\ toWorldY(win, c[2]) <= win.obstacles[i].y + win.obstacles[i].h

\* the square of the distance, in 0.1 m, from the centre of the cell to p
Dist2(win, c, p) ==
    (toWorldX(win, c[1]) - p.x) * (toWorldX(win, c[1]) - p.x)
      + (toWorldY(win, c[2]) - p.y) * (toWorldY(win, c[2]) - p.y)

\* the cell is within START_END_FREE_RADIUS of the exact start or end point
NearPort(win, c) ==
    \/ Dist2(win, c, win.start) <= START_END_FREE_RADIUS * START_END_FREE_RADIUS
    \/ Dist2(win, c, win.end) <= START_END_FREE_RADIUS * START_END_FREE_RADIUS

\* the cells of the path found, the start cell first
PathCells ==
    <<cellOf(probe.win, probe.win.start)>>
      \o [i \in 1..Len(cellsTo(probe.win, probe.st.came,
                               cellOf(probe.win, probe.win.end))) |->
            cellOf(probe.win, cellsTo(probe.win, probe.st.came,
                                      cellOf(probe.win, probe.win.end))[i])]

\* the reached cells whose neighbours have been offered
Expanded ==
    (DOMAIN probe.st.gScore)
      \ ({ <<probe.st.open[i].gx, probe.st.open[i].gy>> : i \in 1..Len(probe.st.open) }
           \cup (IF probe.st.found THEN {cellOf(probe.win, probe.win.end)} ELSE {}))

\* C23: every grid cell on a path found by the search (not the fallback) is
\* either outside all clearance-expanded obstacle rectangles or within the
\* port tolerance radius of the exact start or end point; cells within that
\* radius are passable even when they lie inside an obstacle's expanded
\* rectangle.  Stated of a search that is over: of the path if one is found,
\* of every cell reached, and of the neighbours of every cell taken from
\* the open list.
C23_PathClear ==
    (Routing /\ SearchOver) =>
      /\ probe.st.found =>
           \A i \in 1..Len(PathCells) :
             ~InClearance(probe.win, PathCells[i]) \/ NearPort(probe.win, PathCells[i])
      /\ \A c \in DOMAIN probe.st.gScore :
           ~InClearance(probe.win, c) \/ NearPort(probe.win, c)
      /\ \A c \in Expanded : \A d \in 1..4 :
           ( /\ inBounds(probe.win, c[1] + neigh[d][1], c[2] + neigh[d][2])
             /\ NearPort(probe.win, <<c[1] + neigh[d][1], c[2] + neigh[d][2]>>) )
             => <<c[1] + neigh[d][1], c[2] + neigh[d][2]>> \in DOMAIN probe.st.gScore

\* C23 witness: a path has been found between the ports of two buildings
\* that are both obstacles; it leaves the clearance rectangle of the
\* producer and enters that of the consumer through cells within the free
\* radius, and has cells outside every rectangle in between.
C23_Witness ==
    /\ Routing
    /\ probe.st.found
    /\ Len(probe.win.obstacles) >= 2
    /\ \E i \in 2..Len(PathCells) :
         /\ InClearance(probe.win, PathCells[i])
         /\ NearPort(probe.win, PathCells[i])
    /\ InClearance(probe.win, PathCells[1])
    /\ \E i \in 1..Len(PathCells) : ~InClearance(probe.win, PathCells[i])

(***************************************************************************)
(* SpecBus: ensureBusY applied to an item, an obstacle list and the x      *)
(* range planBeltsWithJunctions computes from it (App.tsx:1400-1403).  The *)
(* obstacle lists are boards the program reaches by clicks with the place  *)
(* tool: the sub-lists of FreePool, and Column(n), n manufacturers clicked *)
(* one under the other from (8, 8).                                        *)
(***************************************************************************)
MaxColumn == 39

BusGridSteps == {1, 8}

BusItemNames == {"Ingot", "Rod"}

\* the distance between two clicks of the column: the least multiple of
\* the grid step at which a manufacturer (20 m) is free of the one above
ColumnPitch(step) == IF step = 1 THEN M(21) ELSE M(24)

\* the board after the clicks Len(ents) + 1 .. n of the column
RECURSIVE ColumnFrom(_, _, _)
ColumnFrom(ents, n, step) ==
    IF Len(ents) >= n THEN ents
    ELSE ColumnFrom(clickPlace(ents, "manufacturer",
                               M(8), M(8) + ColumnPitch(step) * Len(ents), step),
                    n, step)

Column(n, step) == ColumnFrom(<<>>, n, step)

BusBoards(step) ==
    { SelectSeq(FreePool, LAMBDA e : e.id \in S) :
        S \in (SUBSET (1..Len(FreePool))) \ {{}} }
      \cup { Column(n, step) : n \in 1..MaxColumn }

\* the bus maps an item is looked up in: empty, or holding another item
BusMapsBefore == { <<>>, <<[item |-> "Ore", y |-> M(12)]>> }

InitBus ==
    /\ recipes = RECIPES_DATA
    /\ UiIdle
    /\ probe = NoProbe

\* a call of ensureBusY                                  (App.tsx:1342-1359)
EnsureBus ==
    /\ probe = NoProbe
    /\ \E step \in BusGridSteps, item \in BusItemNames, before \in BusMapsBefore :
         \E obs \in BusBoards(step) :
           probe' = [fn |-> "ensureBusY", item |-> item, obs |-> obs, step |-> step,
                     xRange |-> xRangeOf(UNION { {obs[i].x, obs[i].x + M(obs[i].w)} :
                                                 i \in 1..Len(obs) }),
                     before |-> before,
                     after |-> ensureBusY(item, obs,
                                 xRangeOf(UNION { {obs[i].x, obs[i].x + M(obs[i].w)} :
                                                  i \in 1..Len(obs) }),
                                 before, step)]
    /\ UNCHANGED recipes
    /\ UiUnchanged

NextBus == EnsureBus

SpecBus == InitBus /\ [][NextBus]_vars

BusEnsured == probe.fn = "ensureBusY"

\* the baseline of the recorded call: Math.floor(min y + FOUNDATION_M / 2),
\* snapped to the grid as every coordinate the call returns
Baseline ==
    snapToGrid(FloorM(Min(UNION { {probe.obs[i].y, probe.obs[i].y + M(probe.obs[i].h)} :
                                  i \in 1..Len(probe.obs) })
                      + FOUNDATION_M \div 2),
               probe.step)

\* the corridor at y over the x range of the call crosses the rectangle of
\* some obstacle expanded by BUS_MARGIN
CorridorBlocked(y) ==
    \E i \in 1..Len(probe.obs) :
      /\ y >= probe.obs[i].y - BUS_MARGIN
      /\ y <= probe.obs[i].y + M(probe.obs[i].h) + BUS_MARGIN
      /\ Max({probe.xRange[1], probe.xRange[2]}) > probe.obs[i].x - BUS_MARGIN
      /\ Min({probe.xRange[1], probe.xRange[2]})
           < probe.obs[i].x + M(probe.obs[i].w) + BUS_MARGIN

FreeProbes == { k \in 0..99 : ~CorridorBlocked(Baseline + k * BUS_SPACING) }

\* the coordinate the call assigned to its item
BusAssigned == busOf(probe.after, probe.item)[1].y

\* C24: for an item that has no bus yet, ensureBusY returns
\* baseline + k * BUS_SPACING for the smallest k in 0..99 whose horizontal
\* corridor over the given x range crosses no obstacle rectangle expanded by
\* the bus margin, and returns the baseline offset itself, regardless of
\* collision, when all 100 probes are blocked.
C24_FirstFreeCorridor ==
    BusEnsured =>
      /\ Len(busOf(probe.after, probe.item)) = 1
      /\ FreeProbes # {} =>
           /\ BusAssigned = Baseline + Min(FreeProbes) * BUS_SPACING
           /\ ~CorridorBlocked(BusAssigned)
      /\ FreeProbes = {} =>
           /\ BusAssigned = Baseline
           /\ CorridorBlocked(BusAssigned)
      /\ probe.after = Append(probe.before, [item |-> probe.item, y |-> BusAssigned])

\* C24 witness: on a grid of 8 m, where the floor of the least y plus half a
\* foundation is not on the grid, the corridors of the first probes are
\* blocked and a later one is assigned.
C24_Witness ==
    /\ BusEnsured
    /\ probe.step = 8
    /\ Baseline # FloorM(Min(UNION { {probe.obs[i].y, probe.obs[i].y + M(probe.obs[i].h)} :
                                     i \in 1..Len(probe.obs) })
                         + FOUNDATION_M \div 2)
    /\ FreeProbes # {}
    /\ Min(FreeProbes) >= 2
    /\ BusAssigned = Baseline + Min(FreeProbes) * BUS_SPACING

\* the second case of C24: all 100 probes are blocked and the baseline is
\* assigned
C24_Exhausted ==
    /\ BusEnsured
    /\ FreeProbes = {}
    /\ BusAssigned = Baseline

(***************************************************************************)
(* The polyline routeViaBus returns.  A segment is horizontal when its h   *)
(* is BELT_THICKNESS_M and vertical when its w is; its length is the other *)
(* extent.                                                                  *)
(***************************************************************************)
Horizontal(s) == s.h = BELT_THICKNESS_M

SegLength(s) == IF Horizontal(s) THEN s.w ELSE s.h

\* two segments on one line that touch end to end
ColinearTouching(a, b) ==
    \/ /\ Horizontal(a) /\ Horizontal(b) /\ a.y = b.y
       /\ (a.x + a.w = b.x \/ b.x + b.w = a.x)
    \/ /\ ~Horizontal(a) /\ ~Horizontal(b) /\ a.x = b.x
       /\ (a.y + a.h = b.y \/ b.y + b.h = a.y)

\* the three legs of the recorded call, concatenated in order
LegSegments ==
    probe.call.legs[1].segments \o probe.call.legs[2].segments
      \o probe.call.legs[3].segments

\* C25: a via-bus route is the concatenation, in order, of three legs
\* start -> (start.x, busY) -> (end.x, busY) -> end, with zero-length
\* segments dropped and adjacent colinear segments merged: in the returned
\* polyline no two consecutive segments are colinear and touching end to
\* end.
C25_MergedPolyline ==
    RoutedViaBus =>
      /\ \A i \in 1..Len(probe.pushed.segments) :
           SegLength(probe.pushed.segments[i]) > 0
      /\ \A i \in 1..(Len(probe.pushed.segments) - 1) :
           ~ColinearTouching(probe.pushed.segments[i], probe.pushed.segments[i + 1])

\* what holds instead: the polyline keeps the length of the three legs, and
\* no segment begins exactly where its predecessor, on the same line, ends
\* (the only colinear pair the loop of App.tsx:1379-1389 merges)
C25_MergedForward ==
    RoutedViaBus =>
      /\ PathLength(probe.pushed.segments) = PathLength(LegSegments)
      /\ Len(probe.pushed.segments) <= Len(LegSegments)
      /\ \A i \in 1..(Len(probe.pushed.segments) - 1) :
           LET a == probe.pushed.segments[i]
               b == probe.pushed.segments[i + 1]
           IN  /\ ~(Horizontal(a) /\ Horizontal(b) /\ a.y = b.y /\ a.x + a.w = b.x)
               /\ ~(~Horizontal(a) /\ ~Horizontal(b) /\ a.x = b.x /\ a.y + a.h = b.y)

\* C25 witness: a via-bus route has been pushed in which a merge took
\* place.
C25_Witness ==
    /\ RoutedViaBus
    /\ Len(LegSegments) >= 3
    /\ Len(probe.pushed.segments) < Len(LegSegments)

\* a via-bus route whose three legs were all found by the search is pushed
\* with two consecutive segments on one line that touch
C25_ColinearKept ==
    /\ RoutedViaBus
    /\ \A i \in 1..3 : probe.call.legs[i].found
    /\ \E i \in 1..(Len(probe.pushed.segments) - 1) :
         ColinearTouching(probe.pushed.segments[i], probe.pushed.segments[i + 1])

\* a zero-length segment is kept in a pushed polyline
C25_ZeroLengthKept ==
    /\ RoutedViaBus
    /\ \E i \in 1..Len(probe.pushed.segments) :
         SegLength(probe.pushed.segments[i]) = 0

(***************************************************************************)
(* The obstacle list of a planning run.  It starts as the entities handed  *)
(* to planBeltsWithJunctions (probe.combined) and gains each junction when *)
(* it is created; a belt records in seen how long the list was when its    *)
(* route was computed.                                                     *)
(***************************************************************************)
\* the entity a junction was placed for: the key under which it is memoised
JunctionOwner(acc, j) ==
    entityIn(acc.obstacles,
             (CHOOSE r \in { acc.splitterByProdId[i] : i \in 1..Len(acc.splitterByProdId) }
                        \cup { acc.mergerByConsId[i] : i \in 1..Len(acc.mergerByConsId) } :
                r.ent = j).owner)

\* the index of the belt pushed when the junction was created: the first
\* belt that starts or ends at it
FirstBeltOf(acc, j) ==
    Min({ b \in 1..Len(acc.belts) : acc.belts[b].src.id = j.id \/ acc.belts[b].dst.id = j.id })

\* the junction number m of the run stands where a search over the initial
\* entities and the junctions 1..m-1 puts it
PlacedAmong(acc, combined, m) ==
    acc.extras[m]
      = IF acc.extras[m].type = "splitter"
        THEN placeSplitterNear(JunctionOwner(acc, acc.extras[m]),
                               combined \o SubSeq(acc.extras, 1, m - 1), gridStep)
        ELSE placeMergerNear(JunctionOwner(acc, acc.extras[m]),
                             combined \o SubSeq(acc.extras, 1, m - 1), gridStep)

\* C26: in planBeltsWithJunctions the edges are processed in collection
\* order and the obstacle list only grows: every junction is appended to the
\* obstacle list when it is created, before any link of the current or a
\* later edge is routed and before any later junction is placed, so every
\* free-position search and every route call sees the initial entities plus
\* all junctions created earlier in the run.
C26_ObstaclesGrow ==
    Planning =>
      /\ IsPrefix(probe.prev.obstacles, probe.acc.obstacles)
      /\ IsPrefix(probe.prev.extras, probe.acc.extras)
      /\ IsPrefix(probe.prev.belts, probe.acc.belts)
      /\ probe.acc.obstacles = probe.combined \o probe.acc.extras
      /\ \A m \in 1..Len(probe.acc.extras) : PlacedAmong(probe.acc, probe.combined, m)
      /\ \A b \in 1..Len(probe.acc.belts) :
           probe.acc.belts[b].seen
             = Len(probe.combined)
                 + Cardinality({ m \in 1..Len(probe.acc.extras) :
                                   FirstBeltOf(probe.acc, probe.acc.extras[m]) <= b })
      /\ probe.k > 1 =>
           \A b \in (Len(probe.prev.belts) + 1)..Len(probe.acc.belts) :
             probe.acc.belts[b].item = PlanEdges[probe.k - 1].item

\* C26 witness: a run that started with a hand-placed building has planned
\* at least two edges and created junctions for two of them; a junction
\* stands elsewhere than a search over the initial entities alone would put
\* it, and the last link was routed with every junction on the list.
C26_Witness ==
    /\ Planning
    /\ probe.k > 2
    /\ \E i \in 1..Len(probe.combined) : probe.combined[i].node = <<>>
    /\ Len(probe.prev.extras) >= 1
    /\ Len(probe.acc.extras) > Len(probe.prev.extras)
    /\ \E m \in 2..Len(probe.acc.extras) :
         probe.acc.extras[m]
           # (IF probe.acc.extras[m].type = "splitter"
              THEN placeSplitterNear(JunctionOwner(probe.acc, probe.acc.extras[m]),
                                     probe.combined, gridStep)
              ELSE placeMergerNear(JunctionOwner(probe.acc, probe.acc.extras[m]),
                                   probe.combined, gridStep))
    /\ probe.acc.belts[Len(probe.acc.belts)].seen = Len(probe.acc.obstacles)

(***************************************************************************)
(* Planning runs in a row.  A step of Spec is a rerun when runPlanner      *)
(* publishes a plan in a state whose last handler was also a run that      *)
(* published one: the request and the grid step are those of that run.     *)
(***************************************************************************)
Rerun ==
    /\ PlanRan
    /\ steps' = steps + 1
    /\ lastOp' = [op |-> "runPlanner", ok |-> TRUE]

\* the entities without a back-reference, which runPlanner keeps
Nodeless(ens) == SelectSeq(ens, LAMBDA e : e.node = <<>>)

Junctions(ens) == SelectSeq(ens, LAMBDA e : e.type \in {"splitter", "merger"})

\* C27: after any sequence of planning runs the published entity list is
\* the manually placed entities plus the machines and junctions generated by
\* the latest run: every computed entity of an earlier run, splitter and
\* merger included, is replaced, so running the planner twice on the same
\* request leaves the same number of entities as running it once.
C27_RerunReplaces ==
    [][Rerun => Len(entities') = Len(entities)]_vars

\* what holds instead: a rerun replaces the machines by the same number of
\* machines and keeps every entity without a back-reference, the junctions
\* of the earlier run among them
C27_RerunKeepsJunctions ==
    [][Rerun =>
         /\ Len(SelectSeq(entities', LAMBDA e : e.node # <<>>))
              = Len(SelectSeq(entities, LAMBDA e : e.node # <<>>))
         /\ IsPrefix(Nodeless(entities), entities')
         /\ Len(Junctions(entities')) >= Len(Junctions(entities))]_vars

\* C27 witness: the planner has run twice in a row on a request whose plan
\* has junctions, from an empty board; the board holds more entities than
\* the plan of the request on an empty board.
C27_Witness ==
    /\ PlanRan
    /\ steps = 3
    /\ Junctions(entities) # <<>>
    /\ Len(entities)
         > Len(runPlanner(recipes, targetItem, targetRate, preferAlt, gridStep,
                          <<>>, <<>>, <<>>).entities)

\* C28: bus corridors of different items are spaced apart: within one
\* planning run no two distinct items are assigned the same bus coordinate,
\* and any two assigned coordinates differ by at least BUS_SPACING.
C28_BusesSpaced ==
    Planning =>
      \A i, j \in 1..Len(probe.acc.busMap) :
        i # j => Abs(probe.acc.busMap[i].y - probe.acc.busMap[j].y) >= BUS_SPACING

\* what holds instead: the coordinate of each item is the one ensureBusY
\* gives on an empty bus map for the obstacles present when the first edge
\* of the item was planned; the buses assigned before play no part
C28_IgnoresOtherBuses ==
    (Planning /\ probe.k > 1 /\ Len(probe.acc.busMap) > Len(probe.prev.busMap)) =>
      probe.acc.busMap[Len(probe.acc.busMap)]
        = ensureBusY(LastEdge.item, probe.prev.obstacles, probe.xRange, <<>>,
                     gridStep)[1]

\* C28 witness: a run has assigned buses to two different items.
C28_Witness ==
    /\ Planning
    /\ Len(probe.acc.busMap) >= 2
    /\ probe.acc.busMap[1].item # probe.acc.busMap[2].item

\* two items of one run share one bus coordinate
C28_SharedCoordinate ==
    /\ Planning
    /\ \E i, j \in 1..Len(probe.acc.busMap) :
         /\ i # j
         /\ probe.acc.busMap[i].item # probe.acc.busMap[j].item
         /\ probe.acc.busMap[i].y = probe.acc.busMap[j].y

\* the items of the links that enter or leave the entity of identifier id
ItemsAt(bs, id) ==
    { bs[b].item : b \in { i \in 1..Len(bs) : bs[i].src.id = id \/ bs[i].dst.id = id } }

\* C29: no junction is shared between flows of different items: in every
\* planning result, all links that enter or leave a given splitter or merger
\* carry the same item.
C29_JunctionOneItem ==
    Planning =>
      \A m \in 1..Len(probe.acc.extras) :
        Cardinality(ItemsAt(probe.acc.belts, probe.acc.extras[m].id)) <= 1

\* what holds instead: every splitter carries one item; so does every merger
\* of a consumer with a single input slot
C29_SplitterOneItem ==
    Planning =>
      \A m \in 1..Len(probe.acc.extras) :
        ( \/ probe.acc.extras[m].type = "splitter"
          \/ inputsCount(JunctionOwner(probe.acc, probe.acc.extras[m])) = 1 )
          => Cardinality(ItemsAt(probe.acc.belts, probe.acc.extras[m].id)) = 1

\* C29 witness: a run has created a splitter and a merger, each with links
\* on both of its sides.
C29_Witness ==
    /\ Planning
    /\ \E m, n \in 1..Len(probe.acc.extras) :
         /\ probe.acc.extras[m].type = "splitter"
         /\ probe.acc.extras[n].type = "merger"
         /\ \A j \in {probe.acc.extras[m].id, probe.acc.extras[n].id} :
              /\ \E b \in 1..Len(probe.acc.belts) : probe.acc.belts[b].src.id = j
              /\ \E b \in 1..Len(probe.acc.belts) : probe.acc.belts[b].dst.id = j

\* a merger receives links of two different items
C29_MergerShared ==
    /\ Planning
    /\ \E m \in 1..Len(probe.acc.extras) :
         /\ probe.acc.extras[m].type = "merger"
         /\ Cardinality(ItemsAt(probe.acc.belts, probe.acc.extras[m].id)) >= 2

(***************************************************************************)
(* SpecSearch: single calls of routeDirectionalWithBias, with the          *)
(* scheduling of the code.  The router is synchronous: once a call is      *)
(* entered, every turn of its search loop and its return follow without    *)
(* waiting for anything, so each of these steps is taken when it is        *)
(* enabled.  The calls join the points of SearchEnds around the obstacle   *)
(* lists of SearchObstacles: no obstacle, a building between the points,   *)
(* and a building that walls the end in (the open list then empties).      *)
(***************************************************************************)
SearchEnds ==
    { [start |-> [x |-> M(10), y |-> M(10)], end |-> [x |-> M(14), y |-> M(10)]],
      [start |-> [x |-> M(10), y |-> M(10)], end |-> [x |-> M(13), y |-> M(15)]],
      [start |-> [x |-> M(14), y |-> M(12)], end |-> [x |-> M(10), y |-> M(10)]],
      [start |-> [x |-> M(10), y |-> M(10)], end |-> [x |-> M(10), y |-> M(10)]] }

SearchObstacles ==
    { <<>>,
      << entityAt(1, "splitter", [x |-> M(12), y |-> M(10), free |-> TRUE], <<>>) >>,
      << entityAt(1, "smelter", [x |-> M(11), y |-> M(6), free |-> TRUE], <<>>) >> }

InitSearch ==
    /\ recipes = RECIPES_DATA
    /\ gridStep = 1
    /\ UiIdle
    /\ probe = NoProbe

CallSearch ==
    /\ probe = NoProbe
    /\ \E ends \in SearchEnds, obs \in SearchObstacles, bias \in AxisBias :
         probe' = routeEntry([via |-> "direct", start |-> ends.start,
                              end |-> ends.end, obs |-> obs],
                             ends.start, ends.end, obs, bias)
    /\ UNCHANGED recipes
    /\ UiUnchanged

\* one turn of `while (open.length)`, statement by statement: the sort and
\* shift, the test of the goal, and the four neighbours in the order of
\* neigh                                                  (App.tsx:1134-1177)
SearchTurn ==
    /\ Routing
    /\ ~SearchOver
    /\ \E i \in {popIndex(probe.st.open)} :
       \E cur \in {probe.st.open[i]} :
       \E s0 \in {[probe.st EXCEPT !.open = dropAt(@, i)]} :
         IF <<cur.gx, cur.gy>> = cellOf(probe.win, probe.win.end)
         THEN probe' = [probe EXCEPT !.st = [s0 EXCEPT !.found = TRUE]]
         ELSE \E s1 \in {relax(probe.win, s0, cur, neigh[1])} :
              \E s2 \in {relax(probe.win, s1, cur, neigh[2])} :
              \E s3 \in {relax(probe.win, s2, cur, neigh[3])} :
                probe' = [probe EXCEPT !.st = relax(probe.win, s3, cur, neigh[4])]
    /\ UNCHANGED recipes
    /\ UiUnchanged

\* the statements after the loop: the fallback when the goal was not taken
\* from the open list, else the cells read back along `came` and their
\* compression into segments                              (App.tsx:1179-1217)
SearchReturn ==
    /\ Routing
    /\ SearchOver
    /\ IF ~probe.st.found
       THEN probe' = [fn |-> "routed", call |-> probe.call, found |-> FALSE,
                      segments |-> routeManhattan(probe.win.start, probe.win.end)]
       ELSE \E cells \in {<<probe.win.start>>
                             \o cellsTo(probe.win, probe.st.came,
                                        cellOf(probe.win, probe.win.end))} :
              probe' = [fn |-> "routed", call |-> probe.call, found |-> TRUE,
                        segments |-> compressFrom(cells, 1)]
    /\ UNCHANGED recipes
    /\ UiUnchanged

NextSearch ==
    \/ CallSearch
    \/ SearchTurn
    \/ SearchReturn

SpecSearch ==
    /\ InitSearch /\ [][NextSearch]_vars
    /\ WF_vars(SearchTurn)
    /\ WF_vars(SearchReturn)

\* a turn of the loop taken statement by statement is searchStep, and the
\* statements after the loop are routeFound
SearchIsRoute ==
    /\ [][(Routing /\ ~SearchOver /\ probe'.fn = probe.fn)
            => probe' = [probe EXCEPT !.st = searchStep(probe.win, probe.st)]]_vars
    /\ [][(Routing /\ SearchOver)
            => probe' = [fn |-> "routed", call |-> probe.call,
                         found |-> probe.st.found,
                         segments |-> routeFound(probe.win, probe.st)]]_vars

\* the cells that have an entry on the open list
OpenCells(st) == { <<st.open[i].gx, st.open[i].gy>> : i \in 1..Len(st.open) }

\* a turn of the search loop never raises the cost of a reached cell, takes
\* one entry from the open list, and queues afresh only cells that are new
\* or whose cost has strictly decreased
RequeueOnlyCheaper ==
    (Routing /\ ~SearchOver /\ probe' = [probe EXCEPT !.st = searchStep(probe.win, probe.st)])
      => /\ \A c \in DOMAIN probe.st.gScore :
              /\ c \in DOMAIN probe'.st.gScore
              /\ probe'.st.gScore[c] <= probe.st.gScore[c]
         /\ \A i \in 1..Len(probe'.st.open) :
              ( \A j \in 1..Len(probe.st.open) : probe'.st.open[i] # probe.st.open[j] )
                => \/ <<probe'.st.open[i].gx, probe'.st.open[i].gy>>
                        \notin DOMAIN probe.st.gScore
                   \/ probe'.st.gScore[<<probe'.st.open[i].gx, probe'.st.open[i].gy>>]
                        < probe.st.gScore[<<probe'.st.open[i].gx, probe'.st.open[i].gy>>]
         /\ \A c \in DOMAIN probe'.st.gScore : probe'.st.gScore[c] >= 0

\* C30: the search of routeDirectionalWithBias terminates for every start,
\* end and finite obstacle list: a cell is re-queued only when its path cost
\* strictly decreases, so the open list eventually empties or the goal is
\* dequeued, and a polyline (found path or fallback) is always returned,
\* letting a planning request run to completion.
C30_SearchTerminates ==
    /\ [][RequeueOnlyCheaper]_vars
    /\ (Routing /\ ~SearchOver) ~> (Routing /\ SearchOver)
    /\ Routing ~> Routed

\* C30 witness: a call whose open list emptied around a walled-in start or
\* end has returned, with the fallback polyline
C30_Witness ==
    /\ Routed
    /\ ~probe.found
    /\ probe.call.obs # <<>>
    /\ probe.call.start # probe.call.end
    /\ Len(probe.segments) = 3

\* a search that ended by taking the goal from the open list, and its
\* polyline returned
C30_ReturnedFound ==
    /\ Routed
    /\ probe.found
    /\ probe.segments # <<>>
====
